---- MODULE Spec2Model ----
(***************************************************************************)
(* A model of the fund-simulation engine of personal-fin-sim: the Asset    *)
(* class (src/src/asset.cpp, src/include/asset.h) with its cash reserve    *)
(* operations and the year loop of Asset::calculateN.                      *)
(*                                                                         *)
(* Arithmetic.  The code computes in `long int`, `int` and `float`.  The   *)
(* model keeps all three:                                                  *)
(*   - a float is IEEE-754 binary32, round to nearest, ties to even.  The  *)
(*     operations work on records [k, s, m, e]: k = "fin" stands for the   *)
(*     number s * m * 2^e with a mantissa m < 2^24, k = "inf" for          *)
(*     s * infinity, k = "nan"; subnormal numbers are kept, results are    *)
(*     rounded once.  A float held in the object's state is its bit        *)
(*     pattern (sign and magnitude), see Bits and Float;                   *)
(*   - an int is a two's complement integer of 32 bits, a long int one of  *)
(*     64 bits, kept in three limbs (an integer of the checker has 32      *)
(*     bits); signed overflow wraps;                                       *)
(*   - a float-to-integer conversion whose operand is NaN or out of range  *)
(*     is undefined behaviour in C++; what it yields is fixed by the       *)
(*     build's target: x86-64 (cvttss2si: the "integer indefinite" value,  *)
(*     the most negative integer) or AArch64 (fcvtzs: NaN gives 0, out of  *)
(*     range saturates).  The variable `platform` is "any" until a step    *)
(*     whose outcome differs between the two, and that target afterwards.  *)
(***************************************************************************)
EXTENDS Integers, Sequences, FiniteSets, TLC

(***************************************************************************)
(* Program constants (src/include/constants.h)                             *)
(***************************************************************************)
MAX_YEARS == 50
MAX_ACCOUNTS == 4
CASH_RESERVE == 0
INDIVIDUAL_INDEX == 0
ROTH_INDEX == 1
IRA_INDEX == 2
R401K_INDEX == 3

Accounts == 0 .. (MAX_ACCOUNTS - 1)
Years == 0 .. (MAX_YEARS - 1)

(***************************************************************************)
(* Machine integers                                                        *)
(***************************************************************************)
LongBits == 64
IntBits == 32
LimbBits == 24

\* 2^n for n <= 30; 1 for n <= 0.
Powers ==
  <<2, 4, 8, 16, 32, 64, 128, 256, 512, 1024, 2048, 4096, 8192, 16384, 32768, 65536,
    131072, 262144, 524288, 1048576, 2097152, 4194304, 8388608, 16777216, 33554432,
    67108864, 134217728, 268435456, 536870912, 1073741824>>
Pow2(n) == IF n <= 0 THEN 1 ELSE Powers[n]

Limb == Pow2(LimbBits)
TopLimb == Pow2(LongBits - 2 * LimbBits)

Abs(x) == IF x < 0 THEN -x ELSE x
Sgn(x) == IF x < 0 THEN -1 ELSE 1
Max(a, b) == IF b > a THEN b ELSE a

\* An int of the code is an integer of the model: both have 32 bits.
INT_MIN == (-Pow2(IntBits - 2)) * 2
INT_MAX == (Pow2(IntBits - 2) - 1) + Pow2(IntBits - 2)

\* A long int is kept as three limbs <<a2, a1, a0>> that stand for the two's
\* complement number a2 * 2^48 + a1 * 2^24 + a0, with a1 and a0 in 0 .. 2^24 - 1
\* and a2 in -2^15 .. 2^15 - 1.  Long(n) is the long int of the integer n.
Long(n) == <<(n \div Limb) \div Limb, (n \div Limb) % Limb, n % Limb>>

LONG_MIN == <<-(TopLimb \div 2), 0, 0>>
LONG_MAX == <<(TopLimb \div 2) - 1, Limb - 1, Limb - 1>>

\* The carry (or, negative, the borrow) out of a limb, and the top limb wrapped
\* into its range: signed overflow wraps.
Carry(s) == s \div Limb
WrapTop(t) == ((t + TopLimb \div 2) % TopLimb) - TopLimb \div 2

\* a + b, a - b, a < b, a <= b and std::max(a, b) on long int.
LAdd(a, b) ==
  <<WrapTop(a[1] + b[1] + Carry(a[2] + b[2] + Carry(a[3] + b[3]))),
    (a[2] + b[2] + Carry(a[3] + b[3])) % Limb,
    (a[3] + b[3]) % Limb>>

LSub(a, b) ==
  <<WrapTop(a[1] - b[1] + Carry(a[2] - b[2] + Carry(a[3] - b[3]))),
    (a[2] - b[2] + Carry(a[3] - b[3])) % Limb,
    (a[3] - b[3]) % Limb>>

LLess(a, b) ==
  \/ a[1] < b[1]
  \/ a[1] = b[1] /\ a[2] < b[2]
  \/ a[1] = b[1] /\ a[2] = b[2] /\ a[3] < b[3]

LLessEq(a, b) == a = b \/ LLess(a, b)

LMax(a, b) == IF LLess(a, b) THEN b ELSE a

\* (int) x for a long int x: its low 32 bits.
IntOfLong(x) ==
  (IF x[2] % 256 >= 128 THEN (x[2] % 256) - 256 ELSE x[2] % 256) * Limb + x[3]

\* a + b on int.
IntAdd(a, b) == IntOfLong(LAdd(Long(a), Long(b)))

\* |x| as unsigned limbs: the top limb of |LONG_MIN| is 2^15.
Magnitude(x) ==
  IF x[1] >= 0 THEN x
  ELSE <<(-x[1]) + Carry((-x[2]) + Carry(-x[3])),
         ((-x[2]) + Carry(-x[3])) % Limb,
         (-x[3]) % Limb>>

(***************************************************************************)
(* binary32 floating point                                                 *)
(***************************************************************************)
MantBits == 24
MantTop == Pow2(MantBits)
HalfLimb == Pow2(12)
MinExp == -149
MaxExp == 128

FZero == [k |-> "fin", s |-> 1, m |-> 0, e |-> 0]
FNaN == [k |-> "nan", s |-> 1, m |-> 0, e |-> 0]
FInf(sg) == [k |-> "inf", s |-> sg, m |-> 0, e |-> 0]
Fin(sg, mant, ex) == [k |-> "fin", s |-> sg, m |-> mant, e |-> ex]

\* The number of bits of n >= 0 (0 for n = 0).
BitLen4(n) == IF n >= 8 THEN 4 ELSE IF n >= 4 THEN 3 ELSE IF n >= 2 THEN 2 ELSE n
BitLen8(n) == IF n >= 16 THEN 4 + BitLen4(n \div 16) ELSE BitLen4(n)
BitLen16(n) == IF n >= 256 THEN 8 + BitLen8(n \div 256) ELSE BitLen8(n)
BitLen(n) == IF n >= 65536 THEN 16 + BitLen16(n \div 65536) ELSE BitLen16(n)

\* q + 1 when the dropped part (rem out of unit, and more below it when sticky)
\* rounds q up: to nearest, ties to even.
RoundUp(q, rem, unit, sticky) ==
  IF 2 * rem > unit \/ (2 * rem = unit /\ (sticky \/ q % 2 = 1)) THEN q + 1 ELSE q

\* The bits of n * 2^ex that a binary32 cannot keep: those beyond a 24-bit
\* mantissa and those below 2^-149, the unit of the subnormal numbers.
Drop(n, ex) == Max(Max(BitLen(n) - MantBits, MinExp - ex), 0)

\* sg * q * 2^ex for a rounded mantissa q <= 2^24: infinity from 2^128 on.
Rounded(sg, q, ex) ==
  IF q = 0 THEN Fin(sg, 0, 0)
  ELSE IF BitLen(q) + ex > MaxExp THEN FInf(sg)
  ELSE IF q = MantTop THEN Fin(sg, MantTop \div 2, ex + 1)
  ELSE Fin(sg, q, ex)

\* sg * (n + d) * 2^ex rounded to binary32, for 0 <= n < 2^30 and a dropped
\* part 0 <= d < 1 that is not 0 when sticky (n has 25 bits or more then).
Pack(sg, n, ex, sticky) ==
  LET drop == Drop(n, ex)
      unit == Pow2(drop)
  IN  IF n = 0 \/ drop > BitLen(n) THEN Fin(sg, 0, 0)
      ELSE IF drop = 0 THEN Rounded(sg, n, ex)
      ELSE Rounded(sg, RoundUp(n \div unit, n % unit, unit, sticky), ex + drop)

\* sg * n * 2^ex (0 <= n < 2^30) rounded to binary32.
Round24(sg, n, ex) == Pack(sg, n, ex, FALSE)

\* The leading bits of hi * 2^24 + lo as <<n, shift, sticky>>: n is the number
\* without its lowest `shift` bits, at most 26 bits, sticky when one was set.
LeadShift(hi) == Max(BitLen(hi) - 2, 0)
Lead(hi, lo) ==
  LET shift == LeadShift(hi)
  IN  IF hi = 0 THEN <<lo, 0, FALSE>>
      ELSE <<hi * Pow2(LimbBits - shift) + lo \div Pow2(shift), shift, lo % Pow2(shift) # 0>>

\* (float) of the number sg * m for unsigned limbs m.
FromMagnitude(sg, m) ==
  LET top == Lead(m[1], m[2])
      low == Lead(m[2], m[3])
  IN  IF m[1] # 0 THEN Pack(sg, top[1], top[2] + LimbBits, top[3] \/ m[3] # 0)
      ELSE Pack(sg, low[1], low[2], low[3])

\* (float) x for a long int x, and for an int n.
FromLong(x) == FromMagnitude(IF x[1] < 0 THEN -1 ELSE 1, Magnitude(x))
FromInt(n) == FromLong(Long(n))

\* The product of two mantissas a, b <= 2^24 in two limbs, <<hi, lo>>.
MulMant(a, b) ==
  LET ah == a \div HalfLimb
      al == a % HalfLimb
      bh == b \div HalfLimb
      bl == b % HalfLimb
      mid == ah * bl + al * bh
      low == (mid % HalfLimb) * HalfLimb + al * bl
  IN  <<ah * bh + mid \div HalfLimb + low \div MantTop, low % MantTop>>

\* sg * (hi * 2^24 + lo) * 2^ex rounded to binary32.
PackLimbs(sg, p, ex) ==
  LET lead == Lead(p[1], p[2])
  IN  Pack(sg, lead[1], ex + lead[2], lead[3])

\* a * b in binary32.
FMul(a, b) ==
  IF a.k = "nan" \/ b.k = "nan" THEN FNaN
  ELSE IF a.k = "inf" \/ b.k = "inf" THEN
         IF (a.k = "fin" /\ a.m = 0) \/ (b.k = "fin" /\ b.m = 0)
           THEN FNaN ELSE FInf(a.s * b.s)
  ELSE PackLimbs(a.s * b.s, MulMant(a.m, b.m), a.e + b.e)

\* The quotient bits of n / d by long division: <<q, rem>> after `steps` more
\* bits, six at a time while rem < d <= 2^24 keeps 64 * rem below 2^30.
RECURSIVE DivBits(_, _, _, _)
DivBits(q, rem, d, steps) ==
  IF steps = 0 THEN <<q, rem>>
  ELSE IF steps >= 6 THEN DivBits(64 * q + (64 * rem) \div d, (64 * rem) % d, d, steps - 6)
  ELSE DivBits(2 * q + (2 * rem) \div d, (2 * rem) % d, d, steps - 1)

\* a / b in binary32, for mantissas a.m, b.m <= 2^24: the first 26 bits of the
\* quotient, the rest of it sticky.
FDiv(a, b) ==
  IF a.k = "nan" \/ b.k = "nan" THEN FNaN
  ELSE IF a.k = "inf" THEN (IF b.k = "inf" THEN FNaN ELSE FInf(a.s * b.s))
  ELSE IF b.k = "inf" THEN [FZero EXCEPT !.s = a.s * b.s]
  ELSE IF b.m = 0 THEN (IF a.m = 0 THEN FNaN ELSE FInf(a.s * b.s))
  ELSE IF a.m = 0 THEN [FZero EXCEPT !.s = a.s * b.s]
  ELSE LET la == BitLen(a.m)
           lb == BitLen(b.m)
           \* align the operands on their leading bits: an, bn have the same length
           an == a.m * Pow2(Max(lb - la, 0))
           bn == b.m * Pow2(Max(la - lb, 0))
           lead == IF an >= bn THEN 0 ELSE 1
           start == IF an >= bn THEN <<1, an - bn>> ELSE <<0, an>>
           qr == DivBits(start[1], start[2], bn, MantBits + 1 + lead)
       IN  Pack(a.s * b.s, qr[1],
                a.e - b.e + (la - lb) - (MantBits + 1 + lead), qr[2] # 0)

\* Whether the integer part of the finite float f is a two's complement number
\* of `bits` bits.
FitsBits(f, bits) ==
  \/ f.m = 0
  \/ BitLen(f.m) + f.e <= bits - 1
  \/ /\ f.s = -1
     /\ BitLen(f.m) + f.e = bits
     /\ f.m = Pow2(BitLen(f.m) - 1)

Fits(f) == FitsBits(f, LongBits)

\* m * 2^e for 0 <= e as unsigned limbs, a number of at most 64 bits.
ShiftLeft(m, e) ==
  IF e < LimbBits
    THEN <<0, m \div Pow2(LimbBits - e), (m % Pow2(LimbBits - e)) * Pow2(e)>>
  ELSE IF e < 2 * LimbBits
    THEN <<m \div Pow2(2 * LimbBits - e), (m % Pow2(2 * LimbBits - e)) * Pow2(e - LimbBits), 0>>
  ELSE <<m * Pow2(e - 2 * LimbBits), 0, 0>>

\* The integer part of |f|, truncated toward zero, as unsigned limbs.
TruncMagnitude(f) ==
  IF f.m = 0 THEN Long(0)
  ELSE IF f.e >= 0 THEN ShiftLeft(f.m, f.e)
  ELSE IF -f.e > MantBits THEN Long(0)
  ELSE Long(f.m \div Pow2(-f.e))

\* The integer part of the finite float f, when it fits.
Trunc(f) ==
  IF f.s = 1 THEN TruncMagnitude(f) ELSE LSub(Long(0), TruncMagnitude(f))

\* (long int) f on the build `plat`: defined for a finite f in range, else what
\* the target's conversion instruction yields.
ToLong(f, plat) ==
  IF f.k = "fin" /\ Fits(f) THEN Trunc(f)
  ELSE IF plat = "x86_64" THEN LONG_MIN
  ELSE IF f.k = "nan" THEN Long(0)
  ELSE IF f.s = 1 THEN LONG_MAX
  ELSE LONG_MIN

\* (int) f on the build `plat`.
ToInt(f, plat) ==
  IF f.k = "fin" /\ FitsBits(f, IntBits) THEN IntOfLong(Trunc(f))
  ELSE IF plat = "x86_64" THEN INT_MIN
  ELSE IF f.k = "nan" THEN 0
  ELSE IF f.s = 1 THEN INT_MAX
  ELSE INT_MIN

\* x * f assigned to a long int: x converted to float, multiplied, converted back.
MulLong(x, f, plat) == ToLong(FMul(FromLong(x), f), plat)

\* n * f assigned to an int.
MulInt(n, f, plat) == ToInt(FMul(FromInt(n), f), plat)

FNegative(f) == f.k # "nan" /\ f.s = -1 /\ (f.k = "inf" \/ f.m > 0)
FPositive(f) == f.k # "nan" /\ f.s = 1 /\ (f.k = "inf" \/ f.m > 0)

\* f == 0 for a float f.
FIsZero(f) == f.k = "fin" /\ f.m = 0

\* -f.
FNeg(f) == IF f.k = "nan" THEN FNaN ELSE [f EXCEPT !.s = -f.s]

\* A finite non-zero f with its mantissa moved up to the full 24 bits.
Norm(f) ==
  LET up == MantBits - BitLen(f.m)
  IN  Fin(f.s, f.m * Pow2(up), f.e - up)

\* sg * v * 2^(ex - 3) for an exact sum v carrying three extra bits.
AddSigned(ex, v) ==
  IF v = 0 THEN FZero ELSE Round24(Sgn(v), Abs(v), ex - 3)

\* hi plus the smaller operand, already shifted to hi's exponent: q holds its
\* bits down to the third extra bit, rest what was shifted out below (sticky).
AddShifted(hi, sg, q, rest) ==
  AddSigned(hi.e, hi.s * hi.m * 8 + sg * (IF rest # 0 /\ q % 2 = 0 THEN q + 1 ELSE q))

\* hi + lo for normalised operands, hi of the larger exponent.
AddAligned(hi, lo) ==
  IF hi.e - lo.e >= MantBits + 2 THEN hi
  ELSE AddShifted(hi, lo.s, (lo.m * 8) \div Pow2(hi.e - lo.e),
                  (lo.m * 8) % Pow2(hi.e - lo.e))

\* a + b in binary32, for mantissas below 2^24: the operand of the smaller
\* exponent is shifted right keeping guard, round and sticky bits.
FAdd(a, b) ==
  IF a.k = "nan" \/ b.k = "nan" THEN FNaN
  ELSE IF a.k = "inf" THEN (IF b.k = "inf" /\ b.s # a.s THEN FNaN ELSE a)
  ELSE IF b.k = "inf" THEN b
  ELSE IF a.m = 0 THEN (IF b.m = 0 /\ a.s # b.s THEN FZero ELSE b)
  ELSE IF b.m = 0 THEN a
  ELSE IF a.e + BitLen(a.m) >= b.e + BitLen(b.m) THEN AddAligned(Norm(a), Norm(b))
  ELSE AddAligned(Norm(b), Norm(a))

\* a - b in binary32.
FSub(a, b) == FAdd(a, FNeg(b))

\* 1 + r, the int 1 converted to float and added to the float r.
FAddOne(r) == FAdd(FromInt(1), r)

\* The binary32 bit pattern of f as a signed magnitude: exponent field * 2^23 + fraction.
FracBits == 23
ExpBias == 150
InfBits == 255 * Pow2(FracBits)
NaNBits == InfBits + Pow2(FracBits - 1)

\* The pattern of a finite f that is a binary32 number: a subnormal one, below
\* 2^-126, has the exponent field 0 and its multiple of 2^-149 as the fraction.
Pattern(f) ==
  LET len == BitLen(f.m)
  IN  IF f.m = 0 THEN 0
      ELSE IF f.e + len <= MinExp + FracBits THEN f.s * (f.m * Pow2(f.e - MinExp))
      ELSE f.s * ((f.e + len - MantBits + ExpBias) * Pow2(FracBits)
                  + (f.m * Pow2(MantBits - len) - Pow2(FracBits)))

Bits(f) ==
  LET r == Round24(f.s, f.m, f.e)
  IN  IF f.k = "nan" THEN NaNBits
      ELSE IF f.k = "inf" \/ r.k = "inf" THEN f.s * InfBits
      ELSE Pattern(r)

Float(b) ==
  LET field == Abs(b) \div Pow2(FracBits)
      frac == Abs(b) % Pow2(FracBits)
  IN  IF field = 255 THEN (IF frac = 0 THEN FInf(Sgn(b)) ELSE FNaN)
      ELSE IF b = 0 THEN FZero
      ELSE IF field = 0 THEN Fin(Sgn(b), frac, MinExp)
      ELSE Fin(Sgn(b), Pow2(FracBits) + frac, field - ExpBias)

\* a <= b and a < b for floats: both false when either is a NaN.
FLessEq(a, b) == a.k # "nan" /\ b.k # "nan" /\ Bits(a) <= Bits(b)
FLess(a, b) == a.k # "nan" /\ b.k # "nan" /\ Bits(a) < Bits(b)

\* A decimal literal num / den (den a power of ten) assigned to a float.
Dec(num, den) == FDiv(FromInt(num), FromInt(den))


(***************************************************************************)
(* modelRecession.h: the scenario selector and the market assumptions      *)
(***************************************************************************)
\* ModelOption::CONSTANT (CONSTANT is a reserved word here).
MODEL_CONSTANT == 0
PREDEFINED_YEAR0_LOSS == 1
RECESSION_RANDOMIZED == 2

\* The values of enum class ModelOption, and a value that is none of them.
ModelOptions == {MODEL_CONSTANT, PREDEFINED_YEAR0_LOSS, RECESSION_RANDOMIZED}
UnrecognizedOption == RECESSION_RANDOMIZED + 1
NoOption == MODEL_CONSTANT - 1

STOCK_GROWTH_AVG == Dec(113, 1000)
STOCK_AVG_SPAN == Dec(2, 10)
STOCK_AVG_SPAN_HALF == FDiv(STOCK_AVG_SPAN, FromInt(2))
RECESSION_MIN == Dec(-45, 100)
RECESSION_MAX == Dec(-15, 100)
RECESSION_START_MOD == 1
RECESSION_INT_MIN == 8
RECESSION_INT_MAX == 11
RECOVERY_INT_MIN == 1
RECOVERY_INT_MAX == 4
RANDOM_NUM_MIN == 1
RANDOM_NUM_MAX == 100

\* The literals of the fixed reference curve, year 0 first, each as <<n, d>> for n / d.
YEAR0_LOSS_LITERALS ==
  <<
    <<-426, 1000>>, <<1187, 10000>>, <<213, 1000>>, <<213, 1000>>, <<906842, 10000000>>,
    <<232684, 1000000>>, <<242684, 1000000>>, <<132684, 1000000>>, <<146684, 1000000>>, <<114684, 1000000>>,
    <<826842, 10000000>>, <<110684, 1000000>>, <<-237, 1000>>, <<1185, 10000>>, <<1185, 10000>>,
    <<926842, 10000000>>, <<176684, 1000000>>, <<138684, 1000000>>, <<200684, 1000000>>, <<218684, 1000000>>,
    <<140684, 1000000>>, <<122684, 1000000>>, <<726842, 10000000>>, <<706842, 10000000>>, <<220684, 1000000>>,
    <<190684, 1000000>>, <<-312, 1000>>, <<156, 1000>>, <<156, 1000>>, <<144684, 1000000>>,
    <<786842, 10000000>>, <<150684, 1000000>>, <<148684, 1000000>>, <<136684, 1000000>>, <<218684, 1000000>>,
    <<526842, 10000000>>, <<236684, 1000000>>, <<-321, 1000>>, <<136684, 1000000>>, <<1605, 10000>>,
    <<1605, 10000>>, <<246684, 1000000>>, <<232684, 1000000>>, <<240684, 1000000>>, <<124684, 1000000>>,
    <<926842, 10000000>>, <<242684, 1000000>>, <<236684, 1000000>>, <<130684, 1000000>>, <<216684, 1000000>>
  >>

\* The fixed reference curve as floats.
RECESSION_YEAR0_LOSS ==
  [n \in 1 .. MAX_YEARS |-> Dec(YEAR0_LOSS_LITERALS[n][1], YEAR0_LOSS_LITERALS[n][2])]

(***************************************************************************)
(* The Asset object (src/include/asset.h) and the position of its caller   *)
(***************************************************************************)
VARIABLES
  platform,               \* the build's target, once an undefined conversion shows it
  pc,                     \* where the caller is
  profile,                \* the inputs the caller configured the object with
  fundLongevity_,
  cashReserve_,
  growthRate_,
  yearsTillRetirement_,
  takehomeIncome_,
  contributionRoth_,
  contributionIra_,
  contributionR401k_,
  value_,
  availability_,
  expense_,
  distribution_,
  growthRateAvg_,
  inflation_,
  i,                      \* calculateN's loop index
  distributable_total,    \* calculateN's locals
  distribution_percentage,
  net_expense,
  contribution_individual,
  call,                   \* the caller's latest addCashReserve call, until its next call
  modelOption,            \* the selector of the caller's latest populateGrowthCurves call
  growth_common,          \* populateGrowthCurves' local curve
  written                 \* the highest year index calculateN has written so far

fields == <<fundLongevity_, cashReserve_, growthRate_, yearsTillRetirement_,
            takehomeIncome_, contributionRoth_, contributionIra_,
            contributionR401k_, value_, availability_, expense_, distribution_,
            growthRateAvg_, inflation_>>
locals == <<i, distributable_total, distribution_percentage, net_expense,
            contribution_individual>>
curve == <<modelOption, growth_common>>
vars == <<platform, pc, profile, fields, locals, call, curve, written>>

Platforms == {"x86_64", "aarch64"}

NoCall == [cash |-> 0, asset_num |-> 0, n_year |-> 0, made |-> FALSE, cashAdded |-> FALSE]

(***************************************************************************)
(* Asset::Asset()                                                          *)
(***************************************************************************)
Init ==
  /\ platform = "any"
  /\ pc = "new"
  /\ profile = [style |-> "none"]
  /\ fundLongevity_ = 0
  /\ cashReserve_ = 0
  /\ yearsTillRetirement_ = 0
  /\ takehomeIncome_ = Long(0)
  /\ contributionRoth_ = Long(0)
  /\ contributionIra_ = Long(0)
  /\ contributionR401k_ = Long(0)
  /\ value_ = [c \in Accounts |-> [y \in Years |-> Long(0)]]
  /\ distribution_ = [c \in Accounts |-> [y \in Years |-> Long(0)]]
  /\ availability_ = [c \in Accounts |-> [y \in Years |-> FALSE]]
  /\ growthRate_ = [c \in Accounts |-> [y \in Years |-> Bits(FZero)]]
  /\ growthRateAvg_ = [c \in Accounts |-> Bits(FZero)]
  /\ expense_ = [y \in Years |-> Long(0)]
  /\ inflation_ = [y \in Years |-> Bits(FZero)]
  /\ i = 0
  /\ distributable_total = Long(0)
  /\ distribution_percentage = Bits(FZero)
  /\ net_expense = Long(0)
  /\ contribution_individual = Long(0)
  /\ call = NoCall
  /\ modelOption = NoOption
  /\ growth_common = [n \in Years |-> 0]
  /\ written = 0

(***************************************************************************)
(* Bounds of the inputs the caller draws                                   *)
(***************************************************************************)
MaxBalance == 2
MaxExpense == 2
MaxIncome == 2
MaxRetire == 2
MaxCash == 4

\* constants.h: the largest average inflation and growth a profile may give.
MAX_AVG_INFLATION == Dec(3, 10)
MAX_AVG_GROWTH == Dec(3, 10)

Zero == Bits(FZero)
Eighth == Bits(Fin(1, 1, -3))
MinusHalf == Bits(Fin(-1, 1, -1))
Sixteenth == Bits(Fin(1, 1, -4))

\* The balance that exactly covers MAX_YEARS years of expense y given income x for r years.
ExactBalance(x, y, r) == MAX_YEARS * y - x * r

\* Profiles written field by field into a constructed object, as the unit tests do:
\* no growth, no inflation, no income, every account available (ConstantNoGrowthModel).
NoGrowthProfiles ==
  [style : {"fields"}, avail : {"all"},
   v0 : 0 .. MaxBalance, v1 : 0 .. MaxBalance, v2 : {0},
   v3 : {0, MAX_YEARS},
   expense : 1 .. MaxExpense, income : {0}, retire : {0},
   contribution : {0}, infl : {Zero}, rate : {Zero}]

\* Income until retirement, the tax-advantaged accounts locked until then
\* (OneYearIncomeNoGrowthModel, MultipleYearIncomeNoGrowthModel, MaxLongevityNoGrowthModel).
IncomeProfiles ==
  UNION {
    [style : {"fields"}, avail : {"retire"},
     v0 : {0, MaxBalance}, v1 : {0}, v2 : {0},
     v3 : {1, ExactBalance(x, y, r)},
     expense : {y}, income : {x}, retire : {r},
     contribution : {0}, infl : {Zero}, rate : {Zero}]
    : x \in {0, MaxIncome - 1, MaxIncome}, y \in {MaxExpense - 1, MaxExpense},
      r \in {1, MaxRetire} }

\* A balance large enough to fund a cash reserve, with growth, loss and inflation.
ReserveProfiles ==
  [style : {"fields"}, avail : {"all"},
   v0 : {MaxCash}, v1 : {0}, v2 : {0}, v3 : {0},
   expense : (MaxCash - 2) .. MaxCash, income : {0}, retire : {0},
   contribution : {0}, infl : {Zero, Eighth}, rate : {Zero, MinusHalf, Eighth}]

\* Profiles loaded through initializeFromUserData, with contributions until retirement.
UserProfiles ==
  [style : {"user"}, avail : {"retire"},
   v0 : {MaxBalance + 2}, v1 : {8}, v2 : {0}, v3 : {0},
   expense : {0, MaxExpense}, income : {MaxIncome},
   retire : {0, MaxRetire, MAX_YEARS},
   contribution : {0, 1}, infl : {Zero, Eighth}, rate : {Zero, Eighth}]

\* A loaded profile whose accounts grow at less than the market average.
BelowMarketProfiles ==
  [style : {"user"}, avail : {"retire"},
   v0 : {MaxBalance + 2}, v1 : {8}, v2 : {0}, v3 : {0},
   expense : {MaxExpense}, income : {MaxIncome}, retire : {MaxRetire},
   contribution : {1}, infl : {Zero}, rate : {Sixteenth}]

\* One available account whose withdrawal, 22 * (13 / 22), is a whole number that
\* the float product misses.
RoundingProfiles ==
  [style : {"fields"}, avail : {"retire"},
   v0 : {22}, v1 : {0}, v2 : {0}, v3 : {0},
   expense : {13}, income : {0}, retire : {1},
   contribution : {0}, infl : {Zero}, rate : {Zero}]

\* The widest amounts of the unit tests: the largest int as the 401k balance and
\* as the income, the largest average growth, retirement after the last year
\* (SimpleGrowthNoInflationModelMaxRange).
MaxRangeProfiles ==
  [style : {"fields"}, avail : {"retire"},
   v0 : {0}, v1 : {0}, v2 : {0}, v3 : {INT_MAX},
   expense : {1}, income : {INT_MAX}, retire : {MAX_YEARS},
   contribution : {0}, infl : {Zero}, rate : {Bits(MAX_AVG_GROWTH)}]

\* The arguments a caller passes to addCashReserve.
ReserveAmounts == MaxBalance .. MaxCash
ReserveSources == {INDIVIDUAL_INDEX, ROTH_INDEX}
ReserveYears == {0, 1}

Profiles ==
  NoGrowthProfiles \cup IncomeProfiles \cup ReserveProfiles \cup UserProfiles
    \cup BelowMarketProfiles \cup RoundingProfiles \cup MaxRangeProfiles

Balance(p, c) ==
  IF c = INDIVIDUAL_INDEX THEN p.v0
  ELSE IF c = ROTH_INDEX THEN p.v1
  ELSE IF c = IRA_INDEX THEN p.v2
  ELSE p.v3

TotalBalance(p) == p.v0 + p.v1 + p.v2 + p.v3

(***************************************************************************)
(* userDataLoading.cpp: the bounds check main runs on a loaded UserData     *)
(***************************************************************************)
MAX_ROTH_CONTRIBUTION == 100000
MAX_IRA_CONTRIBUTION == 100000
MAX_R401K_CONTRIBUTION == 100000

\* The largest value of an unsigned short, the type of the years-till fields.
USHRT_MAX == 65535

\* x > max for an int x and an unsigned int max below 2^31: x is converted to
\* unsigned, which turns a negative x into a value above max.
UIntGreater(x, max) == x < 0 \/ x > max

\* rate < 0 || rate > max for a float, as the comparisons evaluate: both are
\* false for a NaN.
FloatOutside(b, max) == FLess(Float(b), FZero) \/ FLess(max, Float(b))

\* contribution < 0 || contribution > max.
ContributionOutside(x, max) == x < 0 \/ UIntGreater(x, max)

\* years < 0 || years > MAX_YEARS for an unsigned short.
YearsOutside(y) == y < 0 \/ y > MAX_YEARS

Count(b) == IF b THEN 1 ELSE 0

\* The number of out-of-bounds fields userDataWithinBounds counts.
outOfBounds(user) ==
  Count(user.value[0] < 0) + Count(FloatOutside(user.rate[0], MAX_AVG_GROWTH))
  + Count(user.value[1] < 0) + Count(FloatOutside(user.rate[1], MAX_AVG_GROWTH))
  + Count(user.value[2] < 0) + Count(FloatOutside(user.rate[2], MAX_AVG_GROWTH))
  + Count(user.value[3] < 0) + Count(FloatOutside(user.rate[3], MAX_AVG_GROWTH))
  + Count(user.initialExpense < 0)
  + Count(user.takehomeIncome < 0)
  + Count(ContributionOutside(user.contributionRoth, MAX_ROTH_CONTRIBUTION))
  + Count(ContributionOutside(user.contributionIra, MAX_IRA_CONTRIBUTION))
  + Count(ContributionOutside(user.contributionR401k, MAX_R401K_CONTRIBUTION))
  + Count(user.pensionEstimate < 0)
  + Count(FloatOutside(user.initialInflation, MAX_AVG_INFLATION))
  + Count(YearsOutside(user.yearsTillRetirement))
  + Count(YearsOutside(user.yearsTillWithdrawal))
  + Count(YearsOutside(user.yearsTillPension))

userDataWithinBounds(user) == outOfBounds(user) = 0

\* The UserData a loaded profile stands for: the same rate for every account
\* and the same amount for every contribution.
AsUserData(p) ==
  [style |-> "data",
   value |-> [c \in Accounts |-> Balance(p, c)],
   rate |-> [c \in Accounts |-> p.rate],
   initialExpense |-> p.expense,
   takehomeIncome |-> p.income,
   contributionRoth |-> p.contribution,
   contributionIra |-> p.contribution,
   contributionR401k |-> p.contribution,
   pensionEstimate |-> 0,
   initialInflation |-> p.infl,
   yearsTillRetirement |-> p.retire,
   yearsTillWithdrawal |-> p.retire,
   yearsTillPension |-> p.retire]

\* The field values a user_profile.ini file can put into a UserData: an amount
\* (stoi), a contribution, a rate (stof, which reads "nan" and "inf" too) and a
\* years-till field (stoi cast to unsigned short).
AmountValues == {-1, 0, 1}
ContributionValues == {-1, 0, MAX_ROTH_CONTRIBUTION, MAX_ROTH_CONTRIBUTION + 1}
RateValues ==
  {Bits(FNeg(Float(Eighth))), Zero, Eighth, Bits(MAX_AVG_GROWTH),
   Bits(MAX_AVG_GROWTH) + 1, InfBits, NaNBits}
YearsValues == {0, MAX_YEARS, MAX_YEARS + 1, USHRT_MAX}

\* A UserData with every field in bounds, and the ones that differ from it in
\* one field.
BaseUserData == AsUserData(CHOOSE p \in BelowMarketProfiles : TRUE)
Candidates ==
  {BaseUserData}
    \cup {[BaseUserData EXCEPT !.value[c] = v] : c \in Accounts, v \in AmountValues}
    \cup {[BaseUserData EXCEPT !.rate[c] = r] : c \in Accounts, r \in RateValues}
    \cup {[BaseUserData EXCEPT !.initialExpense = v] : v \in AmountValues}
    \cup {[BaseUserData EXCEPT !.takehomeIncome = v] : v \in AmountValues}
    \cup {[BaseUserData EXCEPT !.contributionRoth = v] : v \in ContributionValues}
    \cup {[BaseUserData EXCEPT !.contributionIra = v] : v \in ContributionValues}
    \cup {[BaseUserData EXCEPT !.contributionR401k = v] : v \in ContributionValues}
    \cup {[BaseUserData EXCEPT !.pensionEstimate = v] : v \in AmountValues}
    \cup {[BaseUserData EXCEPT !.initialInflation = r] : r \in RateValues}
    \cup {[BaseUserData EXCEPT !.yearsTillRetirement = y] : y \in YearsValues}
    \cup {[BaseUserData EXCEPT !.yearsTillWithdrawal = y] : y \in YearsValues}
    \cup {[BaseUserData EXCEPT !.yearsTillPension = y] : y \in YearsValues}

\* main: the loaded UserData is checked, and the program exits with an error
\* when the check fails and goes on to runSimAll when it passes.
CheckUserData(user) ==
  /\ pc = "new"
  /\ pc' = IF userDataWithinBounds(user) THEN "accepted" ELSE "rejected"
  /\ profile' = user
  /\ UNCHANGED <<platform, fields, locals, call, curve, written>>

(***************************************************************************)
(* The caller's direct writes of the public members (tests/test_asset.cpp) *)
(***************************************************************************)
SetFields(p) ==
  /\ pc = "new"
  /\ p.style = "fields"
  /\ pc' = "idle"
  /\ profile' = p
  /\ takehomeIncome_' = Long(p.income)
  /\ yearsTillRetirement_' = p.retire
  /\ contributionRoth_' = Long(p.contribution)
  /\ contributionIra_' = Long(p.contribution)
  /\ contributionR401k_' = Long(p.contribution)
  /\ expense_' = [expense_ EXCEPT ![0] = Long(p.expense)]
  /\ value_' = [c \in Accounts |-> [value_[c] EXCEPT ![0] = Long(Balance(p, c))]]
  /\ growthRateAvg_' = [c \in Accounts |-> p.rate]
  /\ availability_' =
       [c \in Accounts |-> [y \in Years |->
          p.avail = "all" \/ c = INDIVIDUAL_INDEX \/ y >= p.retire]]
  /\ inflation_' = [y \in Years |-> p.infl]
  /\ UNCHANGED <<platform, fundLongevity_, cashReserve_, growthRate_,
                 distribution_, locals, call,
                 curve, written>>

(***************************************************************************)
(* Asset::addCashReserve and Asset::clearCashReserve                       *)
(***************************************************************************)
\* A slip in line 40: the comparison admits a balance equal to the amount.
addCashReserveOkOrEqual(val, cash, asset_num, n_year) ==
  LLessEq(Long(cash), val[asset_num][n_year])

\* Line 40: whether addCashReserve(cash, asset_num, n_year) succeeds on balances val.
addCashReserveOk(val, cash, asset_num, n_year) ==
  LLess(Long(cash), val[asset_num][n_year])

\* Line 43: the balances after the call.
addCashReserveValue(val, cash, asset_num, n_year) ==
  IF addCashReserveOk(val, cash, asset_num, n_year)
    THEN [val EXCEPT ![asset_num][n_year] = LSub(@, Long(cash))]
    ELSE val

\* A slip in line 42: the reserve is credited before the balance is compared.
addCashReserveReserveAlways(val, reserve, cash, asset_num, n_year) ==
  IntAdd(reserve, cash)

\* Line 42: the cash reserve after the call.
addCashReserveReserve(val, reserve, cash, asset_num, n_year) ==
  IF addCashReserveOk(val, cash, asset_num, n_year)
    THEN IntAdd(reserve, cash)
    ELSE reserve

addCashReserve(cash, asset_num, n_year) ==
  /\ pc = "idle"
  /\ pc' = "funded"
  /\ call' = [cash |-> cash, asset_num |-> asset_num, n_year |-> n_year,
               made |-> TRUE,
               cashAdded |-> addCashReserveOk(value_, cash, asset_num, n_year)]
  /\ cashReserve_' = addCashReserveReserve(value_, cashReserve_, cash, asset_num, n_year)
  /\ value_' = addCashReserveValue(value_, cash, asset_num, n_year)
  /\ UNCHANGED <<platform, profile, fundLongevity_, growthRate_,
                 yearsTillRetirement_, takehomeIncome_, contributionRoth_,
                 contributionIra_, contributionR401k_, availability_, expense_,
                 distribution_, growthRateAvg_, inflation_, locals,
                 curve, written>>

\* A slip in line 54: the cleared cash is credited back to the Individual account.
clearCashReserveRefunds ==
  /\ pc \in {"idle", "funded", "cleared"}
  /\ pc' = "cleared"
  /\ call' = NoCall
  /\ cashReserve_' = 0
  /\ value_' = [value_ EXCEPT ![INDIVIDUAL_INDEX][0] = LAdd(@, Long(cashReserve_))]
  /\ UNCHANGED <<platform, profile, fundLongevity_, growthRate_,
                 yearsTillRetirement_, takehomeIncome_, contributionRoth_,
                 contributionIra_, contributionR401k_, availability_,
                 expense_, distribution_, growthRateAvg_, inflation_, locals,
                 curve, written>>

\* Lines 52-55.
clearCashReserve ==
  /\ pc \in {"idle", "funded", "cleared"}
  /\ pc' = "cleared"
  /\ call' = NoCall
  /\ cashReserve_' = 0
  /\ UNCHANGED <<platform, profile, fundLongevity_, growthRate_,
                 yearsTillRetirement_, takehomeIncome_, contributionRoth_,
                 contributionIra_, contributionR401k_, value_, availability_,
                 expense_, distribution_, growthRateAvg_, inflation_, locals,
                 curve, written>>

(***************************************************************************)
(* Asset::initializeFromUserData                                           *)
(***************************************************************************)
\* A slip in line 269: the balances of year 0 are not copied to the later years.
LoadedValueFirstYear(val, user) ==
  addCashReserveValue([c \in Accounts |-> [val[c] EXCEPT ![0] = Long(Balance(user, c))]],
                      CASH_RESERVE, INDIVIDUAL_INDEX, 0)

\* Lines 248, 264-265 and 269: year 0 of every account set, the reserve taken
\* from it, then copied to every later year.
LoadedValue(val, user) ==
  LET year0 == [c \in Accounts |-> [val[c] EXCEPT ![0] = Long(Balance(user, c))]]
      \* clearCashReserve(); addCashReserve(CASH_RESERVE, INDIVIDUAL_INDEX, 0);
      taken == addCashReserveValue(year0, CASH_RESERVE, INDIVIDUAL_INDEX, 0)
  IN  [c \in Accounts |-> [y \in Years |-> taken[c][0]]]

\* A slip in line 265: the reserve is funded with the whole Individual balance.
LoadedReserveWholeBalance(val, user) == Balance(user, INDIVIDUAL_INDEX)

\* Lines 244 and 264-265: the reserve cleared, then taken from year 0.
LoadedReserve(val, user) ==
  addCashReserveReserve([c \in Accounts |-> [val[c] EXCEPT ![0] = Long(Balance(user, c))]],
                        0, CASH_RESERVE, INDIVIDUAL_INDEX, 0)

\* A slip in lines 282: the first year's expense is not copied to the later years.
LoadedExpenseFirstYear(exp, user) == [exp EXCEPT ![0] = Long(user.expense)]

\* Lines 253 and 282.
LoadedExpense(exp, user) ==
  [y \in Years |-> [exp EXCEPT ![0] = Long(user.expense)][0]]

initializeFromUserData(user) ==
  /\ pc \in {"new", "done"}
  /\ user.style = "user"
  /\ pc' = "loaded"
  /\ profile' = user
  /\ fundLongevity_' = 0
  /\ growthRateAvg_' = [c \in Accounts |-> user.rate]
  /\ takehomeIncome_' = Long(user.income)
  /\ contributionRoth_' = Long(user.contribution)
  /\ contributionIra_' = Long(user.contribution)
  /\ contributionR401k_' = Long(user.contribution)
  /\ yearsTillRetirement_' = user.retire
  /\ cashReserve_' = LoadedReserve(value_, user)
  /\ value_' = LoadedValue(value_, user)
  /\ distribution_' = [c \in Accounts |-> [y \in Years |-> Long(0)]]
  /\ availability_' =
       [c \in Accounts |-> [y \in Years |->
          IF c = INDIVIDUAL_INDEX THEN TRUE
          ELSE IF y = 0 THEN FALSE
          ELSE IF y < user.retire THEN FALSE
          ELSE TRUE]]
  /\ expense_' = LoadedExpense(expense_, user)
  /\ inflation_' = [y \in Years |-> user.infl]
  /\ UNCHANGED <<platform, growthRate_, locals, call,
                 curve, written>>

(***************************************************************************)
(* Asset::populateGrowthCurves                                             *)
(***************************************************************************)
\* Line 69: std::mt19937.  A 32-bit word is kept as <<high, low>>, two 16-bit
\* halves.
HalfBits == 16
Half == Pow2(HalfBits)
Word(n) == <<n \div Half, n % Half>>

\* a ^ b and a & b for a, b >= 0.
RECURSIVE BitXor(_, _)
BitXor(a, b) ==
  IF a = 0 THEN b
  ELSE IF b = 0 THEN a
  ELSE 2 * BitXor(a \div 2, b \div 2) + ((a + b) % 2)

RECURSIVE BitAnd(_, _)
BitAnd(a, b) ==
  IF a = 0 \/ b = 0 THEN 0
  ELSE 2 * BitAnd(a \div 2, b \div 2) + ((a % 2) * (b % 2))

WordXor(x, y) == <<BitXor(x[1], y[1]), BitXor(x[2], y[2])>>
WordAnd(x, y) == <<BitAnd(x[1], y[1]), BitAnd(x[2], y[2])>>

\* x >> n for 0 < n < 32, and x << n for 0 < n < 16.
WordShr(x, n) ==
  IF n >= HalfBits THEN <<0, x[1] \div Pow2(n - HalfBits)>>
  ELSE <<x[1] \div Pow2(n), (x[1] % Pow2(n)) * Pow2(HalfBits - n) + (x[2] \div Pow2(n))>>
WordShl(x, n) ==
  <<(x[1] % Pow2(HalfBits - n)) * Pow2(n) + (x[2] \div Pow2(HalfBits - n)),
    (x[2] % Pow2(HalfBits - n)) * Pow2(n)>>

\* a * b for halves a and b, as a word.
HalfMul(a, b) ==
  LET p == (a \div 256) * b
      q == (p % 256) * 256 + (a % 256) * b
  IN  <<(p \div 256) + (q \div Half), q % Half>>

\* x * y and x + n (0 <= n < 2^16) modulo 2^32.
WordMul(x, y) ==
  <<(HalfMul(x[2], y[2])[1] + HalfMul(x[1], y[2])[2] + HalfMul(x[2], y[1])[2]) % Half,
    HalfMul(x[2], y[2])[2]>>
WordAdd(x, n) == <<(x[1] + ((x[2] + n) \div Half)) % Half, (x[2] + n) % Half>>

\* The parameters of mt19937: the state size n, the shift size m, the initialization multiplier
\* 1812433253, the xor mask 0x9908b0df and the tempering masks 0x9d2c5680 and
\* 0xefc60000.
STATE_SIZE == 624
SHIFT_SIZE == 397
InitMultiplier == <<27655, 35173>>
XorMask == <<39176, 45279>>
TemperB == <<40236, 22144>>
TemperC == <<61382, 0>>

\* The seeded state x[0], x[1], ... grown by n words, up to the state size:
\* word i is 1812433253 * (x[i-1] ^ (x[i-1] >> 30)) + i.
RECURSIVE Seeded(_, _)
Seeded(x, n) ==
  IF Len(x) >= STATE_SIZE \/ n = 0 THEN x
  ELSE IF n = 1
    THEN Append(x, WordAdd(WordMul(InitMultiplier,
                                   WordXor(x[Len(x)], WordShr(x[Len(x)], 30))),
                           Len(x)))
  ELSE Seeded(Seeded(x, n \div 2), n - n \div 2)

\* Word k of the regenerated state, for k < STATE_SIZE - SHIFT_SIZE: the top bit of x[k] and
\* the low 31 bits of x[k+1], twisted into x[k+397].
Twisted(x, k) ==
  LET y == <<(x[k + 1][1] \div (Half \div 2)) * (Half \div 2) + (x[k + 2][1] % (Half \div 2)),
             x[k + 2][2]>>
  IN  WordXor(WordXor(x[k + 1 + SHIFT_SIZE], WordShr(y, 1)),
              IF y[2] % 2 = 1 THEN XorMask ELSE Word(0))

\* The generator's output for the state word z.
Tempered(z) ==
  LET a == WordXor(z, WordShr(z, 11))
      b == WordXor(a, WordAnd(WordShl(a, 7), TemperB))
      c == WordXor(b, WordAnd(WordShl(b, 15), TemperC))
  IN  WordXor(c, WordShr(c, 18))

\* Line 71: std::uniform_int_distribution<int>(RANDOM_NUM_MIN, RANDOM_NUM_MAX).
\* The output z times the width of the range is a 64-bit product <<high word,
\* low word's halves>>; an output whose low word is below 2^32 mod width is
\* dropped and the next one taken, else the draw is RANDOM_NUM_MIN + high word.
RangeWidth == RANDOM_NUM_MAX - RANDOM_NUM_MIN + 1
Threshold == ((Half % RangeWidth) * (Half % RangeWidth)) % RangeWidth
Scaled(z) ==
  LET mid == z[1] * RangeWidth + ((z[2] * RangeWidth) \div Half)
  IN  <<mid \div Half, mid % Half, (z[2] * RangeWidth) % Half>>
Kept(z) == Scaled(z)[2] # 0 \/ Scaled(z)[3] >= Threshold

\* The generator's outputs a call can use: one per year, one for the first
\* recession year, and spare ones for those the distribution drops.
MaxOutputs == MAX_YEARS + 6

\* Lines 67-71: the draws of the generator seeded with `seed`, the clock's count
\* modulo 2^32; a stream is one such sequence, its k-th draw counted from 0.
Draws(seed) ==
  LET x == Seeded(<<Word(seed)>>, SHIFT_SIZE + MaxOutputs)
      kept == SelectSeq([k \in 1 .. MaxOutputs |-> Tempered(Twisted(x, k - 1))], Kept)
  IN  [k \in 1 .. Len(kept) |-> RANDOM_NUM_MIN + Scaled(kept[k])[1]]

\* The clock's counts the calls are made at.
MaxSeed == 3
Seeds == 0 .. MaxSeed
Streams == {Draws(seed) : seed \in Seeds}
Draw(st, k) == st[k + 1]

\* Lines 39-43: the reference curve copied.
scenarioPredefinedYear0Loss == [n \in Years |-> Bits(RECESSION_YEAR0_LOSS[n + 1])]

\* Lines 80-82: the recession year's rate from one draw.
RecessionRate(d) ==
  FAdd(RECESSION_MIN,
       FMul(FDiv(FromInt(d), FromInt(RANDOM_NUM_MAX)), FSub(RECESSION_MAX, RECESSION_MIN)))

\* A slip in line 85: the recovery years mirror the whole loss.
FullRebound(rate) == FNeg(rate)

\* Line 85.
HalfRebound(rate) == FNeg(FDiv(rate, FromInt(2)))

\* Lines 78-115, one pass of the loop per recession.  Pass j takes the draws
\* 1 + 3j (the rate), 2 + 3j (the recovery delay) and 3 + 3j (the years until
\* the next recession); draw 0 gave the first recession's year (line 74).
RecoveryDelayOf(d) == RECOVERY_INT_MIN + (d % (RECOVERY_INT_MAX - RECOVERY_INT_MIN))
RecessionGapOf(d) == RECESSION_INT_MIN + (d % (RECESSION_INT_MAX - RECESSION_INT_MIN))
RecoveryDelay(st, j) == RecoveryDelayOf(Draw(st, 2 + 3 * j))
RecessionGap(st, j) == RecessionGapOf(Draw(st, 3 + 3 * j))

\* A slip in line 74: the first recession starts a year late.
RecessionYearLate(st, j) == 1 + j * (RECOVERY_INT_MAX + RECESSION_INT_MAX)

\* The year n at the top of pass j (lines 75, 99, 107 and 113).
RECURSIVE RecessionYear(_, _)
RecessionYear(st, j) ==
  IF j = 0 THEN Draw(st, 0) % RECESSION_START_MOD
  ELSE RecessionYear(st, j - 1) + RecoveryDelay(st, j - 1) + 1 + RecessionGap(st, j - 1)

\* The passes the loop can make: each moves n on by more than RECESSION_INT_MIN years.
Passes == 0 .. (MAX_YEARS \div RECESSION_INT_MIN)

\* A slip in line 96: the first recovery year is not tested against the horizon.
RecoveringUnchecked(st) == {j \in Passes : RecessionYear(st, j) < MAX_YEARS}

\* The passes that run (line 78), those that reach their first recovery year
\* (line 96) and those that reach their second (line 103).
Started(st) == {j \in Passes : RecessionYear(st, j) < MAX_YEARS}

Recovering(st) ==
  {j \in Started(st) : RecessionYear(st, j) + RecoveryDelay(st, j) < MAX_YEARS}

Recovered(st) ==
  {j \in Recovering(st) : RecessionYear(st, j) + RecoveryDelay(st, j) + 1 < MAX_YEARS}

\* Lines 91, 100 and 108: the curve after the loop, 0 where no pass wrote.
Recessions(st) ==
  [n \in Years |->
     IF \E j \in Started(st) : n = RecessionYear(st, j)
       THEN LET j == CHOOSE q \in Started(st) : n = RecessionYear(st, q)
            IN  Bits(RecessionRate(Draw(st, 1 + 3 * j)))
     ELSE IF \E j \in Recovering(st) :
               n - RecessionYear(st, j) - RecoveryDelay(st, j) \in {0, 1}
       THEN LET j == CHOOSE q \in Recovering(st) :
                       n - RecessionYear(st, q) - RecoveryDelay(st, q) \in {0, 1}
            IN  Bits(HalfRebound(RecessionRate(Draw(st, 1 + 3 * j))))
     ELSE 0]

\* Lines 92, 101 and 109: the years the loop wrote.
RecessionYearsSum(st) ==
  Cardinality(Started(st)) + Cardinality(Recovering(st)) + Cardinality(Recovered(st))

\* The draws the loop took, the first one included: a pass that breaks
\* (lines 96 and 103) skips its third draw.
LoopDraws(st) == 1 + 2 * Cardinality(Started(st)) + Cardinality(Recovered(st))

\* Line 122.
RemainingGrowthAvg(rr) ==
  FDiv(FMul(STOCK_GROWTH_AVG, FromInt(MAX_YEARS)), FromInt(MAX_YEARS - rr))

\* Lines 127-128: an ordinary year's rate from one draw.
OrdinaryRate(avg, d) ==
  FAdd(FSub(avg, STOCK_AVG_SPAN_HALF),
       FMul(FDiv(FromInt(d), FromInt(RANDOM_NUM_MAX)), STOCK_AVG_SPAN))

\* Lines 124-129: every year still at 0 after the loop takes the next draw, in
\* year order.
Ordinary(st, filled, avg, first) ==
  [n \in Years |->
     IF filled[n] # 0 THEN filled[n]
     ELSE Bits(OrdinaryRate(avg,
                 Draw(st, first + Cardinality({m \in 0 .. (n - 1) : filled[m] = 0}))))]

\* Lines 48-136.
scenarioRecessionRandomized(st) ==
  Ordinary(st, Recessions(st), RemainingGrowthAvg(RecessionYearsSum(st)), LoopDraws(st))

\* The curves the randomized scenario can generate.
RandomizedCurves == {scenarioRecessionRandomized(st) : st \in Streams}

\* Line 143 and the switch of lines 145-165: the curves the selector can yield.
CommonCurves(option) ==
  IF option = PREDEFINED_YEAR0_LOSS THEN {scenarioPredefinedYear0Loss}
  ELSE IF option = RECESSION_RANDOMIZED THEN RandomizedCurves
  ELSE {[n \in Years |-> 0]}

\* Lines 173-175.
GuessedStockRatio(avg) ==
  LET guessed_stock_ratio == FDiv(avg, STOCK_GROWTH_AVG)
  IN  IF FLessEq(guessed_stock_ratio, FromInt(1))
        THEN guessed_stock_ratio ELSE FromInt(1)

\* A slip in line 149: the constant model scaled like the others.
ConstantRatesScaled(avgs) ==
  [c \in Accounts |->
     [n \in Years |-> Bits(FMul(Float(avgs[c]), GuessedStockRatio(Float(avgs[c]))))]]

\* Lines 147-151.
ConstantRates(avgs) == [c \in Accounts |-> [n \in Years |-> avgs[c]]]

\* Lines 172-179.
ScaledRates(common, avgs) ==
  [c \in Accounts |->
     [n \in Years |-> Bits(FMul(Float(common[n]), GuessedStockRatio(Float(avgs[c]))))]]

populateGrowthCurves(option) ==
  /\ pc \in {"idle", "funded", "cleared", "loaded"}
  /\ pc' = "populated"
  /\ call' = NoCall
  /\ modelOption' = option
  /\ \E common \in CommonCurves(option) :
       /\ growth_common' = common
       /\ growthRate_' = IF option = MODEL_CONSTANT
                           THEN ConstantRates(growthRateAvg_)
                           ELSE ScaledRates(common, growthRateAvg_)
  /\ UNCHANGED <<platform, profile, fundLongevity_, cashReserve_,
                 yearsTillRetirement_, takehomeIncome_, contributionRoth_,
                 contributionIra_, contributionR401k_, value_, availability_,
                 expense_, distribution_, growthRateAvg_, inflation_, locals,
                 written>>

(***************************************************************************)
(* Asset::calculateN                                                       *)
(***************************************************************************)
calculateN ==
  /\ pc = "populated"
  /\ pc' = "year"
  /\ i' = 0
  \* lines 59-62: the locals of this call, each assigned before it is read
  /\ distributable_total' = Long(0)
  /\ distribution_percentage' = Zero
  /\ net_expense' = Long(0)
  /\ contribution_individual' = Long(0)
  /\ written' = 0
  /\ growth_common' = [n \in Years |-> 0]
  /\ UNCHANGED <<platform, profile, fields, call, modelOption>>

\* Line 68: the retirement year is reached.
RetireNow == i = yearsTillRetirement_

\* A slip in lines 72-75: the recurring amount survives the retirement year.
RetiredKeeps(amount) == amount

\* Lines 72-75: a recurring amount after the retirement transition of year i.
Retired(amount) == IF RetireNow THEN Long(0) ELSE amount

\* A slip in line 86: the reserve is used whatever the prior year's growth was.
UseReserveWhateverGrowth == i > 0 /\ cashReserve_ > 0

\* Lines 86 and 96: use the cash reserve after a year of loss, refill it after a year
\* of gain.
UseReserve ==
  i > 0 /\ FNegative(Float(growthRate_[INDIVIDUAL_INDEX][i - 1])) /\ cashReserve_ > 0

RefillReserve ==
  i > 0 /\ FPositive(Float(growthRate_[INDIVIDUAL_INDEX][i - 1])) /\ cashReserve_ = 0

\* Lines 93-98: expense_, cashReserve_ and value_ after the cash reserve policy.
PolicyExpense ==
  IF UseReserve THEN [expense_ EXCEPT ![i] = LSub(@, Long(cashReserve_))] ELSE expense_
PolicyReserve ==
  IF UseReserve THEN 0
  ELSE IF RefillReserve
    THEN addCashReserveReserve(value_, cashReserve_, CASH_RESERVE, INDIVIDUAL_INDEX, i)
  ELSE cashReserve_
PolicyValue ==
  IF ~UseReserve /\ RefillReserve
    THEN addCashReserveValue(value_, CASH_RESERVE, INDIVIDUAL_INDEX, i)
    ELSE value_

\* Lines 115-122: the sum of the balances of the accounts available in year y.
RECURSIVE SumAvailable(_, _, _, _)
SumAvailable(val, avail, y, c) ==
  IF c = MAX_ACCOUNTS THEN Long(0)
  ELSE LET rest == SumAvailable(val, avail, y, c + 1)
       IN  IF avail[c][y] THEN LAdd(val[c][y], rest) ELSE rest

\* Lines 127-128.
NetExpense(exp, income) == LMax(LSub(exp, income), Long(0))
Surplus(exp, income) == LMax(LSub(income, exp), Long(0))

\* Lines 64-128: the loop test, the retirement transition, the cash reserve policy,
\* the distributable total, the net expense and the surplus of year i.
Prepare ==
  /\ pc = "year"
  /\ i < MAX_YEARS
  /\ pc' = "check"
  /\ takehomeIncome_' = Retired(takehomeIncome_)
  /\ contributionRoth_' = Retired(contributionRoth_)
  /\ contributionIra_' = Retired(contributionIra_)
  /\ contributionR401k_' = Retired(contributionR401k_)
  /\ expense_' = PolicyExpense
  /\ cashReserve_' = PolicyReserve
  /\ value_' = PolicyValue
  /\ distributable_total' = SumAvailable(PolicyValue, availability_, i, 0)
  /\ net_expense' = NetExpense(PolicyExpense[i], Retired(takehomeIncome_))
  /\ contribution_individual' = Surplus(PolicyExpense[i], Retired(takehomeIncome_))
  /\ UNCHANGED <<platform, profile, fundLongevity_, growthRate_,
                 yearsTillRetirement_, availability_, distribution_,
                 growthRateAvg_, inflation_, i, distribution_percentage,
                 call,
                 curve, written>>

\* Lines 130 and 132: the shortfall check.
Short == LLess(distributable_total, net_expense)
ReserveCovers == LLess(net_expense, LAdd(distributable_total, Long(cashReserve_)))

\* Lines 130-149 (and, on break, line 232).
Shortfall ==
  /\ pc = "check"
  /\ pc' = IF Short /\ ~ReserveCovers THEN "done" ELSE "pay"
  /\ fundLongevity_' = IF Short /\ ~ReserveCovers THEN i ELSE fundLongevity_
  /\ expense_' = IF Short /\ ReserveCovers
                   THEN [expense_ EXCEPT ![i] = LSub(@, Long(cashReserve_))]
                   ELSE expense_
  /\ cashReserve_' = IF Short /\ ReserveCovers THEN 0 ELSE cashReserve_
  /\ UNCHANGED <<platform, profile, growthRate_, yearsTillRetirement_,
                 takehomeIncome_, contributionRoth_, contributionIra_,
                 contributionR401k_, value_, availability_, distribution_,
                 growthRateAvg_, inflation_, locals, call,
                 curve, written>>

\* Line 151.
Percentage(net, total) == FDiv(FromLong(net), FromLong(total))

\* Lines 166-180: the withdrawal from an account with balance v.
Withdrawal(available, v, pct, plat) ==
  IF available THEN MulLong(v, pct, plat) ELSE Long(0)

\* A slip in line 185: the balance grows before the withdrawal is taken out.
GrownBeforeWithdrawal(v, d, rate, plat) ==
  LSub(MulLong(v, FAddOne(rate), plat), d)

\* Lines 185-186: next year's balance before contributions.
Grown(v, d, rate, plat) == MulLong(LSub(v, d), FAddOne(rate), plat)

\* Lines 210-221: a long int amount multiplied by (1 + inflation_[i]).
Inflated(x, plat) == MulLong(x, FAddOne(Float(inflation_[i])), plat)

\* Line 228: the int cash reserve multiplied by (1 + inflation_[i]).
InflatedReserve(n, plat) == MulInt(n, FAddOne(Float(inflation_[i])), plat)

\* A slip in lines 184, 200 and 220: the guard on the index i + 1 is missing.
HasNextYearAlways == TRUE

\* Lines 184, 200 and 220: year i + 1 has an entry in the year-indexed arrays.
HasNextYear == i + 1 < MAX_YEARS

\* Line 200.
Contributing == i < yearsTillRetirement_ /\ HasNextYear

\* Lines 201-204: this year's contribution to account c.
Contribution(c) ==
  IF c = INDIVIDUAL_INDEX THEN contribution_individual
  ELSE IF c = ROTH_INDEX THEN contributionRoth_
  ELSE IF c = IRA_INDEX THEN contributionIra_
  ELSE contributionR401k_

\* Lines 151-229 on the build plat: what year i leaves in the object.
Paid(plat) ==
  LET pct == Percentage(net_expense, distributable_total)
      d == [c \in Accounts |->
              Withdrawal(availability_[c][i], value_[c][i], pct, plat)]
      grown == [c \in Accounts |->
                  Grown(value_[c][i], d[c], Float(growthRate_[c][i]), plat)]
      next == [c \in Accounts |->
                 IF Contributing THEN LAdd(grown[c], Contribution(c))
                                 ELSE grown[c]]
  IN  [pct |-> Bits(pct),
       distribution |-> [c \in Accounts |-> [distribution_[c] EXCEPT ![i] = d[c]]],
       value |-> IF HasNextYear
                   THEN [c \in Accounts |-> [value_[c] EXCEPT ![i + 1] = next[c]]]
                   ELSE value_,
       roth |-> IF Contributing THEN Inflated(contributionRoth_, plat)
                                ELSE contributionRoth_,
       ira |-> IF Contributing THEN Inflated(contributionIra_, plat)
                               ELSE contributionIra_,
       r401k |-> IF Contributing THEN Inflated(contributionR401k_, plat)
                                 ELSE contributionR401k_,
       income |-> IF Contributing THEN Inflated(takehomeIncome_, plat)
                                  ELSE takehomeIncome_,
       expense |-> IF HasNextYear
                     THEN [expense_ EXCEPT ![i + 1] = Inflated(expense_[i], plat)]
                     ELSE expense_,
       reserve |-> IF cashReserve_ > 0 THEN InflatedReserve(cashReserve_, plat)
                                       ELSE cashReserve_]

\* Lines 151-229: distribution, growth, contributions, inflation, and i++.  The
\* step's outcome on each target; the target is pinned once the outcomes differ.
Pay ==
  /\ pc = "pay"
  /\ pc' = "year"
  /\ i' = i + 1
  /\ written' = IF HasNextYear THEN i + 1 ELSE Max(written, i)
  /\ \E x86 \in {Paid("x86_64")}, arm \in {Paid("aarch64")} :
     \E plat \in (IF platform = "any" THEN Platforms ELSE {platform}) :
     \E after \in {IF plat = "x86_64" THEN x86 ELSE arm} :
       /\ platform' = IF x86 = arm THEN platform ELSE plat
       /\ distribution_percentage' = after.pct
       /\ distribution_' = after.distribution
       /\ value_' = after.value
       /\ contributionRoth_' = after.roth
       /\ contributionIra_' = after.ira
       /\ contributionR401k_' = after.r401k
       /\ takehomeIncome_' = after.income
       /\ expense_' = after.expense
       /\ cashReserve_' = after.reserve
  /\ UNCHANGED <<profile, fundLongevity_, growthRate_, yearsTillRetirement_,
                 availability_, growthRateAvg_, inflation_, distributable_total,
                 net_expense, contribution_individual, call,
                 curve>>

\* Lines 64 and 232: the loop runs out.
LoopExit ==
  /\ pc = "year"
  /\ i >= MAX_YEARS
  /\ pc' = "done"
  /\ fundLongevity_' = i
  /\ UNCHANGED <<platform, profile, cashReserve_, growthRate_,
                 yearsTillRetirement_, takehomeIncome_, contributionRoth_,
                 contributionIra_, contributionR401k_, value_, availability_,
                 expense_, distribution_, growthRateAvg_, inflation_, locals,
                 call,
                 curve, written>>

\* runSim, lines 93-98: the loop comes round again, on the same object and the
\* same user, when the selector is the randomized one.
Iterating == pc = "done" /\ profile.style = "user" /\ modelOption = RECESSION_RANDOMIZED

\* The profiles of the unit tests, each of which the tests run under the
\* constant model (test_asset.cpp, lines 84 to 405).
ConstantCallers ==
  NoGrowthProfiles \cup IncomeProfiles \cup RoundingProfiles \cup MaxRangeProfiles

\* The selectors a caller passes.  populateGrowthCurves is public and takes any
\* value of the selector's type, whatever the members hold: runSim, which
\* loads a user profile, passes the same one in every iteration; a caller that
\* wrote the members itself passes any, the unit tests the constant model.
CallerOptions(p, passed) ==
  IF passed # NoOption THEN {passed}
  ELSE IF p \in ConstantCallers THEN {MODEL_CONSTANT}
  ELSE ModelOptions \cup {UnrecognizedOption}

Next ==
  \/ \E p \in Profiles : SetFields(p)
  \/ \E user \in Candidates : CheckUserData(user)
  \/ \E user \in Profiles :
       pc = "new" /\ userDataWithinBounds(AsUserData(user)) /\ initializeFromUserData(user)
  \/ Iterating /\ initializeFromUserData(profile)
  \/ \E cash \in ReserveAmounts, asset_num \in ReserveSources, n_year \in ReserveYears :
       addCashReserve(cash, asset_num, n_year)
  \/ clearCashReserve
  \/ \E option \in CallerOptions(profile, modelOption) : populateGrowthCurves(option)
  \/ calculateN
  \/ Prepare
  \/ Shortfall
  \/ Pay
  \/ LoopExit

Spec == Init /\ [][Next]_vars

(***************************************************************************)
(* The cash reserve operations                                             *)
(***************************************************************************)
\* A step in which the caller's addCashReserve call runs.
AddStep == pc = "idle" /\ pc' = "funded"

\* C1: addCashReserve(amount, account, year) returns success if and only if
\* value[account][year] > amount; on success the reserve grows by exactly amount, the
\* source balance shrinks by exactly amount, their sum is conserved, and no other
\* account or year changes.
C1_AddCashReserveMoves ==
  [][AddStep =>
       LET amount == call'.cash
           account == call'.asset_num
           year == call'.n_year
       IN  /\ call'.cashAdded <=> LLess(Long(amount), value_[account][year])
           /\ call'.cashAdded =>
                 /\ cashReserve_' = cashReserve_ + amount
                 /\ value_'[account][year] = LSub(value_[account][year], Long(amount))
                 /\ LAdd(Long(cashReserve_'), value_'[account][year])
                      = LAdd(Long(cashReserve_), value_[account][year])
                 /\ \A c \in Accounts, y \in Years :
                      <<c, y>> # <<account, year>> => value_'[c][y] = value_[c][y]
  ]_vars

\* A successful call that moved a positive amount has returned.
C1_Witness ==
  pc = "funded" /\ call.cashAdded /\ call.cash > 0 /\ cashReserve_ = call.cash

\* C2: when addCashReserve fails (value[account][year] <= amount, equality included)
\* it returns false and the whole state is unchanged: the cash reserve and every
\* balance keep their contents.
C2_FailedAddChangesNothing ==
  [][AddStep /\ LLessEq(value_[call'.asset_num][call'.n_year], Long(call'.cash)) =>
       /\ ~call'.cashAdded
       /\ UNCHANGED fields
  ]_vars

\* A call asking for exactly the source balance has returned failure.
C2_Witness ==
  /\ pc = "funded" /\ ~call.cashAdded
  /\ call.cash > 0
  /\ value_[call.asset_num][call.n_year] = Long(call.cash)

\* A step in which the caller's clearCashReserve call runs.
ClearStep == pc \in {"idle", "funded", "cleared"} /\ pc' = "cleared"

\* C11: clearCashReserve sets the cash reserve to 0 from any state and leaves every
\* account value, distribution, expense and other field unchanged (the cleared cash
\* is not credited back to any account); on a reserve that is already 0 it changes
\* nothing at all, so it is idempotent.
C11_ClearOnlyZeroesReserve ==
  [][ClearStep =>
       /\ cashReserve_' = 0
       /\ UNCHANGED <<fundLongevity_, growthRate_, yearsTillRetirement_,
                      takehomeIncome_, contributionRoth_, contributionIra_,
                      contributionR401k_, value_, availability_, expense_,
                      distribution_, growthRateAvg_, inflation_>>
       /\ cashReserve_ = 0 => UNCHANGED fields
  ]_vars

\* A reserve that was funded from the Individual account has been cleared, and the
\* account still misses the cash.
C11_Witness ==
  /\ pc = "cleared" /\ cashReserve_ = 0
  /\ LLess(value_[INDIVIDUAL_INDEX][0], Long(profile.v0))


(***************************************************************************)
(* The year loop of calculateN                                             *)
(***************************************************************************)
Min(a, b) == IF a < b THEN a ELSE b

\* The object entered calculateN exactly as the profile configured it: no reserve was
\* set aside and no growth or inflation applies.
Untouched ==
  /\ cashReserve_ = 0
  /\ \A c \in Accounts : value_[c][0] = Long(Balance(profile, c))


\* C12: calculateN never writes a year-indexed entry at an index of MAX_YEARS or
\* more: next year's values and expense are written only while year i + 1
\* exists, the final iteration included.
C12_NoWritePastLastYear == written < MAX_YEARS

\* The final iteration has run and wrote nothing beyond the last year.
C12_Witness == pc = "year" /\ i = MAX_YEARS /\ written = MAX_YEARS - 1


\* The participation ratio of account c: min(growthRateAvg / marketAverage, 1.0).
Participation(c) ==
  LET ratio == FDiv(Float(growthRateAvg_[c]), STOCK_GROWTH_AVG)
  IN  IF FLess(FromInt(1), ratio) THEN FromInt(1) ELSE ratio

CurveScenarios == {PREDEFINED_YEAR0_LOSS, RECESSION_RANDOMIZED}

\* C13: under the predefined and the randomized scenario every account's rate is
\* the common curve's rate times min(growthRateAvg / marketAverage, 1.0), so its
\* magnitude never exceeds the common curve's magnitude in that year.
C13_ScaledWithinCommon ==
  (pc = "populated" /\ modelOption \in CurveScenarios) =>
    \A c \in Accounts, n \in Years :
      /\ growthRate_[c][n] = Bits(FMul(Float(growth_common[n]), Participation(c)))
      /\ Abs(growthRate_[c][n]) <= Abs(growth_common[n])


\* C14: a selector that is none of the three scenarios leaves every growth rate
\* at 0 and is reported as a configuration error: the call does not return
\* normally, so the caller never holds a populated object to simulate with.
C14_UnrecognizedSelectorIsAnError ==
  [][(pc \in {"idle", "funded", "cleared", "loaded"} /\ modelOption' = UnrecognizedOption)
       => /\ \A c \in Accounts, n \in Years : growthRate_'[c][n] = 0
          /\ pc' # "populated"]_vars


\* C15: the constant scenario sets every year's rate of every account to the
\* account's growthRateAvg, unscaled, also when that exceeds the market average.
C15_ConstantRatesAreTheAverage ==
  (pc = "populated" /\ modelOption = MODEL_CONSTANT) =>
    \A c \in Accounts, n \in Years : growthRate_[c][n] = growthRateAvg_[c]

\* The constant scenario on an account whose average exceeds the market average.
C15_Witness ==
  /\ pc = "populated" /\ modelOption = MODEL_CONSTANT
  /\ FLess(STOCK_GROWTH_AVG, Float(growthRateAvg_[ROTH_INDEX]))
  /\ growthRate_[ROTH_INDEX][MAX_YEARS - 1] = growthRateAvg_[ROTH_INDEX]


\* The members of a freshly constructed object (asset.cpp:287-322).
Constructed ==
  [value |-> [c \in Accounts |-> [y \in Years |-> Long(0)]],
   expense |-> [y \in Years |-> Long(0)]]

\* The rates populateGrowthCurves leaves for the selector and curve of its call.
PopulatedRate(c, n) ==
  IF modelOption = MODEL_CONSTANT THEN growthRateAvg_[c]
  ELSE Bits(FMul(Float(growth_common[n]), GuessedStockRatio(Float(growthRateAvg_[c]))))

\* C16: runs on one object do not contaminate each other.  Whatever ran on the
\* object before, after initializeFromUserData every member that calculateN
\* reads equals what a freshly constructed object gets from the same profile,
\* and after populateGrowthCurves the rates are those of the selected curve
\* alone, so calculateN starts from the same state as on a fresh object.
C16_RunsDoNotContaminate ==
  (pc \in {"loaded", "populated"} /\ profile.style = "user") =>
    /\ fundLongevity_ = 0
    /\ cashReserve_ = LoadedReserve(Constructed.value, profile)
    /\ value_ = LoadedValue(Constructed.value, profile)
    /\ expense_ = LoadedExpense(Constructed.expense, profile)
    /\ distribution_ = [c \in Accounts |-> [y \in Years |-> Long(0)]]
    /\ \A c \in Accounts, y \in Years :
         availability_[c][y] = (c = INDIVIDUAL_INDEX \/ (y > 0 /\ y >= profile.retire))
    /\ growthRateAvg_ = [c \in Accounts |-> profile.rate]
    /\ inflation_ = [y \in Years |-> profile.infl]
    /\ takehomeIncome_ = Long(profile.income)
    /\ yearsTillRetirement_ = profile.retire
    /\ \A x \in {contributionRoth_, contributionIra_, contributionR401k_} :
         x = Long(profile.contribution)
    /\ pc = "populated" =>
         \A c \in Accounts, n \in {0, MAX_YEARS - 1} : growthRate_[c][n] = PopulatedRate(c, n)

\* The below-market profile loaded again, by the next iteration of runSim's
\* loop, into the object that has just run it: the recession rates of the
\* finished run are still there when the load ends.
C16_Witness ==
  /\ pc = "loaded" /\ profile \in BelowMarketProfiles
  /\ modelOption = RECESSION_RANDOMIZED
  /\ written > 0
  /\ FNegative(Float(growthRate_[INDIVIDUAL_INDEX][0]))
  /\ growthRateAvg_[INDIVIDUAL_INDEX] = Sixteenth

\* Every rate the generator can give a recession year, one per value of the draw.
RecessionRates == {Bits(RecessionRate(d)) : d \in RANDOM_NUM_MIN .. RANDOM_NUM_MAX}

\* C17: the randomized generator puts its first recession in year 0: the common
\* curve's year-0 rate is a recession severity, negative and within
\* [RECESSION_MIN, RECESSION_MAX] = [-0.45, -0.15], whatever the draws.
C17_FirstRecessionInYear0 ==
  (pc = "populated" /\ modelOption = RECESSION_RANDOMIZED) =>
    /\ growth_common[0] \in RecessionRates
    /\ growth_common[0] < 0
    /\ \A r \in RecessionRates : Bits(RECESSION_MIN) <= r /\ r <= Bits(RECESSION_MAX)

\* A randomized curve whose year 0 holds the mildest recession, -0.15.
C17_Witness ==
  /\ pc = "populated" /\ modelOption = RECESSION_RANDOMIZED
  /\ growth_common[0] = Bits(RECESSION_MAX)

\* C19: userDataWithinBounds returns true if and only if every field is in
\* bounds: every account's value >= 0 and rate in [0, MAX_AVG_GROWTH], expense,
\* income and pension estimate >= 0, every contribution in [0, its maximum],
\* inflation in [0, MAX_AVG_INFLATION] and every years-till field in
\* [0, MAX_YEARS].  A rate that is not a number is in no interval.
InRange(b, max) == FLessEq(FZero, Float(b)) /\ FLessEq(Float(b), max)
EveryFieldInBounds(user) ==
  /\ \A c \in Accounts : user.value[c] >= 0 /\ InRange(user.rate[c], MAX_AVG_GROWTH)
  /\ user.initialExpense >= 0
  /\ user.takehomeIncome >= 0
  /\ user.contributionRoth \in 0 .. MAX_ROTH_CONTRIBUTION
  /\ user.contributionIra \in 0 .. MAX_IRA_CONTRIBUTION
  /\ user.contributionR401k \in 0 .. MAX_R401K_CONTRIBUTION
  /\ user.pensionEstimate >= 0
  /\ InRange(user.initialInflation, MAX_AVG_INFLATION)
  /\ user.yearsTillRetirement \in 0 .. MAX_YEARS
  /\ user.yearsTillWithdrawal \in 0 .. MAX_YEARS
  /\ user.yearsTillPension \in 0 .. MAX_YEARS
C19_WithinBoundsIffEveryFieldInBounds ==
  pc \in {"accepted", "rejected"} =>
    (pc = "accepted" <=> EveryFieldInBounds(profile))

\* The same, for the profiles whose rates are numbers.
C19_NumbersWithinBoundsIffInBounds ==
  (pc \in {"accepted", "rejected"}
     /\ \A c \in Accounts : profile.rate[c] # NaNBits
     /\ profile.initialInflation # NaNBits) =>
    (pc = "accepted" <=> EveryFieldInBounds(profile))

\* C20: the cash reserve policy of year i acts only for i > 0 and before the
\* distributable total and the net expense of year i are computed.  After a
\* negative Individual growth rate in year i-1 with a reserve > 0, expense[i] is
\* reduced by the whole reserve and the reserve becomes 0; else after a positive
\* one with a reserve of 0, addCashReserve(CASH_RESERVE, Individual, i) is
\* attempted; in year 0 and in every other case the reserve and expense[i] are
\* left as they were.
PriorLoss == i > 0 /\ FLess(Float(growthRate_[INDIVIDUAL_INDEX][i - 1]), FZero)
PriorGain == i > 0 /\ FLess(FZero, Float(growthRate_[INDIVIDUAL_INDEX][i - 1]))
C20_ReservePolicyOrdering ==
  [][(pc = "year" /\ pc' = "check") =>
       /\ IF PriorLoss /\ cashReserve_ > 0
            THEN /\ expense_'[i] = LSub(expense_[i], Long(cashReserve_))
                 /\ cashReserve_' = 0
                 /\ value_' = value_
          ELSE IF PriorGain /\ cashReserve_ = 0
            THEN /\ expense_'[i] = expense_[i]
                 /\ IF LLess(Long(CASH_RESERVE), value_[INDIVIDUAL_INDEX][i])
                      THEN /\ cashReserve_' = IntAdd(cashReserve_, CASH_RESERVE)
                           /\ value_'[INDIVIDUAL_INDEX][i]
                                = LSub(value_[INDIVIDUAL_INDEX][i], Long(CASH_RESERVE))
                      ELSE cashReserve_' = cashReserve_ /\ value_' = value_
          ELSE /\ expense_'[i] = expense_[i]
               /\ cashReserve_' = cashReserve_
               /\ value_' = value_
       /\ distributable_total' = SumAvailable(value_', availability_', i, 0)
       /\ net_expense' = LMax(LSub(expense_'[i], takehomeIncome_'), Long(0))]_vars
C20_Witness ==
  /\ pc = "check"
  /\ i = 1
  /\ FLess(Float(growthRate_[INDIVIDUAL_INDEX][0]), FZero)
  /\ inflation_[0] = Zero
  /\ cashReserve_ = 0
  /\ LLess(expense_[1], expense_[0])
  /\ net_expense = LMax(LSub(expense_[1], takehomeIncome_), Long(0))
  /\ LLess(net_expense, expense_[0])

\* C21: a cash-reserve draw in year i reduces the expense of year i only: the
\* expense that a later year starts with is the inflation-compounded projection
\* expense[j] = expense[j-1] * (1 + inflation[j-1]) of the undrawn expense.
RECURSIVE ProjectedExpense(_, _)
ProjectedExpense(j, plat) ==
  IF j = 0 THEN Long(profile.expense)
  ELSE MulLong(ProjectedExpense(j - 1, plat), FAddOne(Float(inflation_[j - 1])), plat)
StartsYear == pc = "year" /\ i > 0 /\ i < MAX_YEARS
C21_DrawReducesOnlyItsYear ==
  StartsYear => \E plat \in Platforms : expense_[i] = ProjectedExpense(i, plat)

\* The same for the first ten years of the loaded profiles, whose reserve is
\* never drawn.
C21_UndrawnExpenseIsProjected ==
  (StartsYear /\ i <= 10 /\ profile.style = "user") =>
    \E plat \in Platforms : expense_[i] = ProjectedExpense(i, plat)

\* C22: for every processed year i with i + 1 < MAX_YEARS and every account c,
\* value[c][i+1] = (value[c][i] - distribution[c][i]) * (1 + growthRate[c][i]),
\* plus, only while i < yearsTillRetirement, the year's contribution (the income
\* surplus max(income - expense[i], 0) for Individual, the contribution scalar
\* for the others); an unavailable account has distribution 0 and still grows;
\* after the addition the scalars and the income are inflated by inflation[i].
\* The surplus is the one the year computes, from the income and the expense
\* the cash reserve policy leaves.
YearContribution(c) ==
  IF c = INDIVIDUAL_INDEX THEN contribution_individual
  ELSE IF c = ROTH_INDEX THEN contributionRoth_
  ELSE IF c = IRA_INDEX THEN contributionIra_
  ELSE contributionR401k_
InflatedWhileWorking(x, plat) ==
  IF i < yearsTillRetirement_
    THEN MulLong(x, FAddOne(Float(inflation_[i])), plat)
    ELSE x
C22_NextYearBalance ==
  [][/\ (pc = "year" /\ pc' = "check") =>
          contribution_individual' = LMax(LSub(takehomeIncome_', expense_'[i]), Long(0))
     /\ (pc = "pay" /\ pc' = "year" /\ i + 1 < MAX_YEARS) =>
       \E plat \in Platforms :
         /\ \A c \in Accounts :
              /\ ~availability_[c][i] => distribution_'[c][i] = Long(0)
              /\ value_'[c][i + 1] =
                   LAdd(MulLong(LSub(value_[c][i], distribution_'[c][i]),
                                FAddOne(Float(growthRate_[c][i])), plat),
                        IF i < yearsTillRetirement_ THEN YearContribution(c) ELSE Long(0))
         /\ contributionRoth_' = InflatedWhileWorking(contributionRoth_, plat)
         /\ contributionIra_' = InflatedWhileWorking(contributionIra_, plat)
         /\ contributionR401k_' = InflatedWhileWorking(contributionR401k_, plat)
         /\ takehomeIncome_' = InflatedWhileWorking(takehomeIncome_, plat)]_vars
C22_Witness ==
  /\ pc = "year"
  /\ i = 1
  /\ yearsTillRetirement_ > 1
  /\ ~availability_[ROTH_INDEX][0]
  /\ distribution_[ROTH_INDEX][0] = Long(0)
  /\ growthRate_[ROTH_INDEX][0] = Eighth
  /\ value_[ROTH_INDEX][0] = Long(8)
  /\ value_[ROTH_INDEX][1] = Long(10)
  /\ LLess(value_[INDIVIDUAL_INDEX][0], value_[INDIVIDUAL_INDEX][1])

\* C23: in the randomized generator the gap drawn from the second recovery year
\* to the next recession ranges over exactly RECESSION_INT_MIN .. RECESSION_INT_MAX
\* (8..11) and the gap from a recession to its first recovery year over exactly
\* RECOVERY_INT_MIN .. RECOVERY_INT_MAX (1..4): every value of each range is the
\* outcome of some draw and no other value is.
RandomNumbers == RANDOM_NUM_MIN .. RANDOM_NUM_MAX
RecessionGaps == {RecessionGapOf(d) : d \in RandomNumbers}
RecoveryDelays == {RecoveryDelayOf(d) : d \in RandomNumbers}
C23_GapsCoverTheirRanges ==
  modelOption = RECESSION_RANDOMIZED =>
    /\ RecessionGaps = RECESSION_INT_MIN .. RECESSION_INT_MAX
    /\ RecoveryDelays = RECOVERY_INT_MIN .. RECOVERY_INT_MAX

\* What the draws do yield: the ranges without their upper ends.
C23_GapsStopBelowTheMaximum ==
  modelOption = RECESSION_RANDOMIZED =>
    /\ RecessionGaps = RECESSION_INT_MIN .. (RECESSION_INT_MAX - 1)
    /\ RecoveryDelays = RECOVERY_INT_MIN .. (RECOVERY_INT_MAX - 1)

\* C24: in every curve of the randomized generator, a recession year r with
\* severity s whose first recovery year r + gap is in range has
\* common[r + gap] = -s/2, and common[r + gap + 1] = -s/2 too when that year is
\* in range, so that a complete episode sums to zero; no later recession and no
\* filler rate overwrites a recovery year.
StreamCurves == {<<st, scenarioRecessionRandomized(st)>> : st \in Streams}
MinusHalfOf(b) == FNeg(FDiv(Float(b), FromInt(2)))
EpisodesRebound(st, common) ==
  \A j \in Started(st) :
    /\ FLess(Float(common[RecessionYear(st, j)]), FZero)
    /\ j \in Recovering(st) =>
         common[RecessionYear(st, j) + RecoveryDelay(st, j)]
           = Bits(MinusHalfOf(common[RecessionYear(st, j)]))
    /\ j \in Recovered(st) =>
         /\ common[RecessionYear(st, j) + RecoveryDelay(st, j) + 1]
              = Bits(MinusHalfOf(common[RecessionYear(st, j)]))
         /\ FIsZero(FAdd(FAdd(Float(common[RecessionYear(st, j)]),
                              MinusHalfOf(common[RecessionYear(st, j)])),
                         MinusHalfOf(common[RecessionYear(st, j)])))
C24_RecoveryMirrorsHalfTheLoss ==
  modelOption = RECESSION_RANDOMIZED =>
    \A sc \in StreamCurves :
      growth_common = sc[2] => EpisodesRebound(sc[1], growth_common)
C24_Witness ==
  /\ pc = "populated"
  /\ modelOption = RECESSION_RANDOMIZED
  /\ \E sc \in StreamCurves :
       /\ growth_common = sc[2]
       /\ Cardinality(Recovered(sc[1])) > 1
       /\ Cardinality(Started(sc[1])) > Cardinality(Recovered(sc[1]))

\* C25: every run terminates and is reproducible: calculateN makes at most
\* MAX_YEARS loop iterations, the recession placement loop of the randomized
\* generator ends for every outcome of the draws because each pass moves the
\* year index up, and with a fixed growth curve calculateN is a deterministic
\* function of the input state: the year's outcome is the same one on every
\* build.
C25_CalculateNIsDeterministic ==
  pc = "pay" => Paid("x86_64") = Paid("aarch64")

\* The loop counter counts the iterations: a year is processed only below
\* MAX_YEARS and the loop is left at MAX_YEARS at the latest.
C25_AtMostMaxYearsIterations ==
  /\ i \in 0 .. MAX_YEARS
  /\ pc \in {"check", "pay"} => i < MAX_YEARS
  /\ pc = "done" => fundLongevity_ \in 0 .. MAX_YEARS

\* Every pass of the placement loop moves the year index up by at least
\* RECOVERY_INT_MIN + 1 + RECESSION_INT_MIN, whatever the draws: the index
\* leaves the horizon within the passes counted.
C25_PlacementLoopAdvances ==
  modelOption = RECESSION_RANDOMIZED =>
    /\ \A d \in RandomNumbers, e \in RandomNumbers :
         RecoveryDelayOf(d) + 1 + RecessionGapOf(e)
           >= RECOVERY_INT_MIN + 1 + RECESSION_INT_MIN
    /\ \A sc \in StreamCurves :
         \E j \in Passes : RecessionYear(sc[1], j) >= MAX_YEARS

\* C26: on the production path (initializeFromUserData, populateGrowthCurves,
\* calculateN, with the replenishment target CASH_RESERVE = 0) the cash reserve
\* is 0 in every state, for every profile and growth curve; so no year's expense
\* is reduced by the reserve and the shortfall check is net expense >
\* distributable total.
C26_ProductionReserveIsZero ==
  profile.style = "user" =>
    /\ cashReserve_ = 0
    /\ pc \in {"year", "check", "pay"} => ~UseReserve
    /\ pc = "check" => ~(Short /\ ReserveCovers)
    /\ (pc \in {"check", "pay"} /\ i > 0) => expense_[i] = expense_[i - 1] \/ inflation_[i - 1] # Zero
C26_Witness ==
  /\ profile.style = "user"
  /\ pc = "check"
  /\ i > 0
  /\ FLess(Float(growthRate_[INDIVIDUAL_INDEX][i - 1]), FZero)
  /\ cashReserve_ = 0
  /\ Short

\* C27: after initializeFromUserData the Individual account is available in
\* every year, and each of the Roth, IRA and 401k accounts is available in year
\* y if and only if y >= yearsTillRetirement, for every yearsTillRetirement in
\* 0 .. MAX_YEARS, 0 included.
AvailableFromRetirement(years) ==
  \A y \in years :
    /\ availability_[INDIVIDUAL_INDEX][y]
    /\ \A c \in Accounts \ {INDIVIDUAL_INDEX} :
         availability_[c][y] <=> y >= yearsTillRetirement_
C27_AvailableFromRetirement ==
  pc = "loaded" => AvailableFromRetirement(Years)

\* The same for the years after year 0.
C27_LaterYearsAvailableFromRetirement ==
  pc = "loaded" => AvailableFromRetirement(Years \ {0})

\* C3: after the year loop fundLongevity is in 0..MAX_YEARS; below MAX_YEARS it is the
\* year whose net expense the distributable total plus the cash reserve cannot cover.
C3_LongevityIsFirstUncoveredYear ==
  pc = "done" =>
    /\ fundLongevity_ \in 0 .. MAX_YEARS
    /\ fundLongevity_ < MAX_YEARS =>
         /\ fundLongevity_ = i
         /\ LLess(LAdd(distributable_total, Long(cashReserve_)), net_expense)

\* C4: with zero growth, inflation, income and reserve, every account available and
\* expense Y > 0, fundLongevity = min(floor(totalInitialValue / Y), MAX_YEARS).
C4_NoGrowthLongevity ==
  (pc = "done" /\ profile \in NoGrowthProfiles /\ Untouched) =>
    fundLongevity_ = Min(TotalBalance(profile) \div profile.expense, MAX_YEARS)

\* C5: with zero growth and inflation, income X in each of the first R years, only the
\* Individual account available before year R, total initial value V and expense Y,
\* fundLongevity = min(floor((V + X*R) / Y), MAX_YEARS).  Stated for the profiles of
\* the two income tests: the income covers the expense and the Individual account is
\* not empty, so no year before retirement needs a withdrawal.
C5_IncomeLongevity ==
  (/\ pc = "done" /\ profile \in IncomeProfiles /\ Untouched
   /\ profile.income >= profile.expense /\ profile.v0 > 0) =>
    fundLongevity_ =
      Min((TotalBalance(profile) + profile.income * profile.retire) \div profile.expense,
          MAX_YEARS)

\* A profile whose resources exactly cover MAX_YEARS years: income equal to expense
\* for one year, the whole balance MAX_YEARS*Y - X*R in the 401k account.
ExactProfile ==
  /\ profile \in IncomeProfiles
  /\ profile.income = profile.expense /\ profile.retire = 1
  /\ profile.v0 = 0
  /\ profile.v3 = ExactBalance(profile.income, profile.expense, profile.retire)

\* C6: for such a profile fundLongevity = MAX_YEARS, every year-0 distribution is 0 and
\* the year-0 values are unchanged, and in year MAX_YEARS-1 the funded account's value
\* and distribution both equal Y while the other accounts hold and withdraw 0.
C6_ExactProfileLastsMaxYears ==
  (pc = "done" /\ ExactProfile /\ Untouched) =>
    /\ fundLongevity_ = MAX_YEARS
    /\ \A c \in Accounts :
         /\ distribution_[c][0] = Long(0)
         /\ value_[c][0] = Long(Balance(profile, c))
         /\ value_[c][MAX_YEARS - 1]
              = IF c = R401K_INDEX THEN Long(profile.expense) ELSE Long(0)
         /\ distribution_[c][MAX_YEARS - 1]
              = IF c = R401K_INDEX THEN Long(profile.expense) ELSE Long(0)

\* calculateN has just processed year i - 1, whose distributable total was positive.
ProcessedYear == pc = "year" /\ i > 0 /\ LLess(Long(0), distributable_total)

\* C7: in every year calculateN processes, each account's withdrawal satisfies
\* 0 <= distribution[c][i] <= value[c][i], also in a year where the cash reserve was
\* drained to cover a shortfall.  Stated for the years whose distributable total is
\* positive, where the percentage is a quotient of two numbers.
C7_WithdrawalWithinBalance ==
  ProcessedYear =>
    \A c \in Accounts :
      /\ LLessEq(Long(0), distribution_[c][i - 1])
      /\ LLessEq(distribution_[c][i - 1], value_[c][i - 1])

\* C8: when the net expense of year i exceeds the distributable total but is still
\* <= distributable total + cash reserve (equality included), the reserve is drained
\* into that year's expense, becomes 0 and the loop continues with year i; only when
\* net expense > distributable total + reserve does the loop end with fundLongevity = i.
C8_ReserveCoversUpToEquality ==
  [][(pc = "check" /\ LLess(distributable_total, net_expense)) =>
       IF LLessEq(net_expense, LAdd(distributable_total, Long(cashReserve_)))
         THEN /\ pc' = "pay" /\ i' = i
              /\ cashReserve_' = 0
              /\ expense_'[i] = LSub(expense_[i], Long(cashReserve_))
         ELSE /\ pc' = "done"
              /\ fundLongevity_' = i
  ]_vars

\* C9: a year with distributableTotal = 0 and netExpense = 0 has a defined result:
\* every distribution of that year is 0, nothing indeterminate reaches distribution[]
\* or the next year's value[] (the outcome is the same on every build), and the loop
\* goes on to the next year.
C9_ZeroOverZeroIsDefined ==
  (pc = "year" /\ i > 0 /\ distributable_total = Long(0) /\ net_expense = Long(0)) =>
    /\ \A c \in Accounts : distribution_[c][i - 1] = Long(0)
    /\ \A c \in Accounts : i < MAX_YEARS => LLessEq(Long(0), value_[c][i])
    /\ platform = "any"

\* C10: from the iteration i = yearsTillRetirement on, take-home income and the three
\* contributions are 0 and stay 0; they are zeroed before that year's net expense is
\* computed, so income offsets the expense only in years before yearsTillRetirement.
C10_RetirementIsIrreversible ==
  /\ ( \/ pc \in {"check", "pay"} /\ i >= yearsTillRetirement_
       \/ pc \in {"year", "done"} /\ i > yearsTillRetirement_ ) =>
        /\ takehomeIncome_ = Long(0)
        /\ contributionRoth_ = Long(0)
        /\ contributionIra_ = Long(0)
        /\ contributionR401k_ = Long(0)
  /\ (pc = "check" /\ i >= yearsTillRetirement_) =>
        /\ net_expense = LMax(expense_[i], Long(0))
        /\ contribution_individual = LMax(LSub(Long(0), expense_[i]), Long(0))

\* A year after retirement is being paid for a profile that had income and
\* contributions before it.
C10_Witness ==
  /\ pc = "pay" /\ i > yearsTillRetirement_ /\ yearsTillRetirement_ > 0
  /\ profile.income > 0 /\ profile.contribution > 0
  /\ LLess(Long(0), net_expense)

\* C28: in every year calculateN processes with a distribution percentage in
\* [0, 1], the withdrawals of the year add up to no more than the net expense
\* and to more than the net expense less the number of available accounts
\* (each withdrawal is truncated toward zero); an unavailable account
\* contributes 0.
RECURSIVE Withdrawn(_, _)
Withdrawn(y, c) ==
  IF c = MAX_ACCOUNTS THEN Long(0) ELSE LAdd(distribution_[c][y], Withdrawn(y, c + 1))
AvailableAccounts(y) == Cardinality({c \in Accounts : availability_[c][y]})
PercentageInUnit ==
  /\ FLessEq(FZero, Float(distribution_percentage))
  /\ FLessEq(Float(distribution_percentage), FromInt(1))
C28_WithdrawalsCoverNetExpense ==
  (ProcessedYear /\ PercentageInUnit) =>
    /\ \A c \in Accounts : ~availability_[c][i - 1] => distribution_[c][i - 1] = Long(0)
    /\ LLessEq(Withdrawn(i - 1, 0), net_expense)
    /\ LLess(LSub(net_expense, Withdrawn(i - 1, 0)), Long(AvailableAccounts(i - 1)))

\* What does hold: the withdrawals never exceed the net expense and miss it by
\* at most one unit for each available account.
C28_WithdrawalsWithinOneUnitEach ==
  (ProcessedYear /\ PercentageInUnit) =>
    /\ \A c \in Accounts : ~availability_[c][i - 1] => distribution_[c][i - 1] = Long(0)
    /\ LLessEq(Withdrawn(i - 1, 0), net_expense)
    /\ LLessEq(LSub(net_expense, Withdrawn(i - 1, 0)), Long(AvailableAccounts(i - 1)))

\* C29: when calculateN ends early in year i (fundLongevity = i < MAX_YEARS) it
\* leaves distribution[c][j] for every j >= i, and value[c][j] and expense[j]
\* for every j > i, as they were before the call: after initializeFromUserData
\* the initial values of year 0, in a constructed object written field by field
\* the zeroes of the constructor.
InitialValue(c) == IF profile.style = "user" THEN Long(Balance(profile, c)) ELSE Long(0)
InitialExpense == IF profile.style = "user" THEN Long(profile.expense) ELSE Long(0)
EndedEarly == pc = "done" /\ fundLongevity_ < MAX_YEARS
C29_BeyondDepletionUntouched ==
  EndedEarly =>
    \A c \in Accounts, j \in Years :
      /\ j >= fundLongevity_ => distribution_[c][j] = Long(0)
      /\ j > fundLongevity_ => value_[c][j] = InitialValue(c) /\ expense_[j] = InitialExpense
C29_Witness ==
  /\ EndedEarly
  /\ profile.style = "user"
  /\ fundLongevity_ > 1
  /\ fundLongevity_ + 1 < MAX_YEARS
  /\ value_[INDIVIDUAL_INDEX][fundLongevity_] # InitialValue(INDIVIDUAL_INDEX)
  /\ value_[INDIVIDUAL_INDEX][fundLongevity_ + 1] = InitialValue(INDIVIDUAL_INDEX)
  /\ LLess(Long(0), InitialValue(INDIVIDUAL_INDEX))
  /\ LLess(Long(0), distribution_[INDIVIDUAL_INDEX][fundLongevity_ - 1])

\* C30: in the randomized generator, for every outcome of the draws, every write
\* to the common curve is at an index in 0 .. MAX_YEARS - 1, the counter of
\* recession and recovery years is the number of distinct years given such a
\* rate and is below MAX_YEARS, so that the divisor of the adjusted average is
\* positive, and after the filler step no year is left at rate 0.
LoopWrites(st) ==
  {RecessionYear(st, j) : j \in Started(st)}
    \cup {RecessionYear(st, j) + RecoveryDelay(st, j) : j \in Recovering(st)}
    \cup {RecessionYear(st, j) + RecoveryDelay(st, j) + 1 : j \in Recovered(st)}
ZeroFillers ==
  {rd \in (1 .. (MAX_YEARS - 1)) \X RandomNumbers :
     FIsZero(OrdinaryRate(RemainingGrowthAvg(rd[1]), rd[2]))}
C30_GeneratorStaysInRange ==
  (pc = "populated" /\ modelOption = RECESSION_RANDOMIZED) =>
    /\ \A n \in Years : growth_common[n] # 0
    /\ ZeroFillers = {}
    /\ \A sc \in StreamCurves :
         growth_common = sc[2] =>
           /\ LoopWrites(sc[1]) \subseteq Years
           /\ RecessionYearsSum(sc[1]) = Cardinality(LoopWrites(sc[1]))
           /\ RecessionYearsSum(sc[1])
                = Cardinality({n \in Years : Recessions(sc[1])[n] # 0})
           /\ RecessionYearsSum(sc[1]) < MAX_YEARS
C30_Witness ==
  /\ pc = "populated"
  /\ modelOption = RECESSION_RANDOMIZED
  /\ \E sc \in StreamCurves :
       /\ growth_common = sc[2]
       /\ Cardinality(Recovering(sc[1])) > Cardinality(Recovered(sc[1]))
       /\ (MAX_YEARS - 1) \in LoopWrites(sc[1])

====
